---- MODULE Spec2Model ----
(***************************************************************************)
(* Gatsby's World: the leaderboard Submit handler (api/submit-score.ts)    *)
(* and the game session (src/game.ts), modelled as state machines.         *)
(*                                                                         *)
(* Four groups of variables share the module: the Submit handler's, the    *)
(* game's, the List handler's (api/leaderboard.ts) and the page's (the     *)
(* leaderboard panel and the score form of src/game.ts).  SpecServer,      *)
(* SpecRace, SpecSeq and SpecSanitize move the Submit handler; SpecList    *)
(* moves the List handler; SpecGame, SpecPlay and SpecFresh move the game; *)
(* SpecPanel and SpecForm move the game together with the page's requests. *)
(***************************************************************************)
EXTENDS Integers, Sequences, FiniteSets, TLC

VARIABLES
  store,      \* the sorted set "leaderboard": username -> score, Null if absent
  reqs,       \* the Submit requests: position in the handler, locals, response
  prior       \* the store before the first request (history)

serverVars == <<store, reqs, prior>>

VARIABLES
  state,                  \* GameState
  score,
  difficulty,             \* DifficultyLevel
  characterX,             \* px
  characterY,             \* 1/Scale px
  characterVelocityY,     \* 1/Scale px per tick
  canDoubleJump,
  hasDoubleJumped,
  lives,
  isInCollision,
  characterRotation,      \* 1/Scale degrees
  gameOverAnimationTime,  \* ms
  shakeTime,              \* ms, -1 when the shake is over
  shakeOffsetX,           \* 1/Scale px
  shakeOffsetY,           \* 1/Scale px
  isBarking,
  floorOffset,            \* px
  obstacles,              \* sequence of Obstacle
  obstacleTimer,
  obstacleSpacing,
  trees,                  \* sequence of Tree
  treeSpawnCounter,
  nextTreeSpawnFrame,
  spawnedBlocks,          \* blocks of all towers spawned in the run (history)
  destroyedBlocks,        \* blocks removed by attacks in the run (history)
  impulses,               \* velocity impulses since the last landing (history)
  overlapRun              \* consecutive PLAYING ticks with an overlap, and the
                          \* lives deducted during them (history)

characterVars == <<characterX, characterY, characterVelocityY, canDoubleJump,
                   hasDoubleJumped>>
animationVars == <<characterRotation, gameOverAnimationTime>>
shakeVars == <<shakeTime, shakeOffsetX, shakeOffsetY, isBarking>>
obstacleVars == <<obstacles, obstacleTimer, obstacleSpacing>>
treeVars == <<trees, treeSpawnCounter, nextTreeSpawnFrame>>
historyVars == <<spawnedBlocks, destroyedBlocks, impulses, overlapRun>>

gameVars == <<state, score, difficulty, characterVars, lives, isInCollision,
              animationVars, shakeVars, floorOffset, obstacleVars, treeVars,
              historyVars>>

VARIABLES
  lreq        \* the List request: position in the handler, reply, response

listVars == <<lreq>>

VARIABLES
  leaderboardEntries,         \* rows of the panel: real ones, then "-" rows
  displayed,                  \* the rows last rendered by displayLeaderboardRange
  currentLeaderboardRange,
  leaderboardScrollInterval,  \* Null, or the id of the interval timer
  liveIntervals,              \* interval timers of the window not yet cleared
  fetches,                    \* GET /api/leaderboard in flight, per caller
  usernameInput,              \* the text of the username field
  savedUsername,              \* localStorage "gatsbys-username"
  posts,                      \* POST /api/submit-score in flight
  submitMessage,              \* the message under the form
  submitDisabled,             \* the submit button is disabled
  devHost                     \* the page is served by the dev server (localhost:5173)

panelVars == <<leaderboardEntries, displayed, currentLeaderboardRange,
               leaderboardScrollInterval, liveIntervals, fetches>>
formVars == <<usernameInput, savedUsername, posts, submitMessage,
              submitDisabled, devHost>>
pageVars == <<panelVars, formVars>>

vars == <<serverVars, gameVars, listVars, pageVars>>

\* ------------------------------------------------------------------------
\* Leaderboard server: POST /api/submit-score
\* ------------------------------------------------------------------------

\* null of `number | null`
Null == 0 - 1

\* Usernames as stored (already sanitized); the order of the sequence is the
\* lexicographic order Redis uses between members of equal score.
UserOrder == <<"A", "B">>
Users == {UserOrder[i] : i \in 1..Len(UserOrder)}

\* Scores a request may carry (non-negative integers).
ScoreValues == {10, 30, 50, 80}

\* Requests of the concurrent specification / of the sequential one.
MaxReqs == 2
SeqReqs == 5

ReqIds == 1..SeqReqs

NoResp == [status |-> 0, success |-> FALSE, position |-> Null]

\* lookup and replaced are history: how the ZSCORE call ended, and the stored
\* score the request's write replaced.
IdleReq == [pc |-> "idle", username |-> "", score |-> 0,
            existingScore |-> Null, written |-> FALSE, resp |-> NoResp,
            lookup |-> "none", replaced |-> Null, raw |-> <<>>, name |-> <<>>]

Max(a, b) == IF a >= b THEN a ELSE b

\* ZREVRANK: 0-based rank by score descending, ties by member descending.
UserIndex(u) == CHOOSE i \in 1..Len(UserOrder) : UserOrder[i] = u

Zrevrank(st, u) ==
  IF st[u] = Null THEN Null
  ELSE Cardinality({v \in Users : /\ st[v] # Null
                                  /\ \/ st[v] > st[u]
                                     \/ st[v] = st[u] /\ UserIndex(v) > UserIndex(u)})

\* The branch taken after the lookup: write, or report "not higher".
ShouldWriteLoose(existingScore, submitted) ==
  existingScore = Null \/ submitted >= existingScore

ShouldWrite(existingScore, submitted) ==
  existingScore = Null \/ submitted > existingScore

\* What the handler holds in existingScore after the ZSCORE call.
\* outcome "ok": the parsed result; "notok" (HTTP error status) and
\* "throws" (fetch rejected) both leave the initial null.
LookupResult(st, u, outcome) == IF outcome = "ok" THEN st[u] ELSE Null

\* res.statusCode = ...; res.end(JSON.stringify({success, position, ...}))
Respond(rq, status, success, position) ==
  [rq EXCEPT !.pc = "done",
             !.resp = [status |-> status, success |-> success, position |-> position]]

\* A POST arrives with a valid body; requests take their ids in arrival order.
Receive(r, u, s, limit, inflight) ==
  /\ reqs[r].pc = "idle"
  /\ r <= limit
  /\ \A q \in ReqIds : q < r => reqs[q].pc # "idle"
  /\ Cardinality({q \in ReqIds : reqs[q].pc \notin {"idle", "done"}}) < inflight
  /\ reqs' = [reqs EXCEPT ![r] = [IdleReq EXCEPT !.pc = "zscore",
                                                 !.username = u, !.score = s]]
  /\ UNCHANGED <<store, prior, gameVars, listVars, pageVars>>

\* await fetch(ZSCORE) and the branch on its result.
Zscore(r, outcome) ==
  /\ reqs[r].pc = "zscore"
  /\ LET e == LookupResult(store, reqs[r].username, outcome)
     IN reqs' = [reqs EXCEPT ![r].existingScore = e,
                             ![r].lookup = outcome,
                             ![r].pc = IF ShouldWrite(e, reqs[r].score)
                                       THEN "zadd" ELSE "rank"]
  /\ UNCHANGED <<store, prior, gameVars, listVars, pageVars>>

\* await fetch(ZADD) over REST (followed by the logged verification read).
Zadd(r, ok) ==
  /\ reqs[r].pc = "zadd"
  /\ IF ok
     THEN /\ store' = [store EXCEPT ![reqs[r].username] = reqs[r].score]
          /\ reqs' = [reqs EXCEPT ![r].pc = "rank", ![r].written = TRUE,
                                  ![r].replaced = store[reqs[r].username]]
     ELSE /\ store' = store
          /\ reqs' = [reqs EXCEPT ![r].pc = "fallback"]
  /\ UNCHANGED <<prior, gameVars, listVars, pageVars>>

\* catch (restError): the client library's zadd; when it throws too the outer
\* catch answers 500 with {error, success: false}.
Fallback(r, ok) ==
  /\ reqs[r].pc = "fallback"
  /\ IF ok
     THEN /\ store' = [store EXCEPT ![reqs[r].username] = reqs[r].score]
          /\ reqs' = [reqs EXCEPT ![r].pc = "rank", ![r].written = TRUE,
                                  ![r].replaced = store[reqs[r].username]]
     ELSE /\ store' = store
          /\ reqs' = [reqs EXCEPT ![r] = Respond(reqs[r], 500, FALSE, Null)]
  /\ UNCHANGED <<prior, gameVars, listVars, pageVars>>

\* await fetch(ZREVRANK) and res.end(...): 200 with success true after a
\* write, success false otherwise; a failed rank call gives position null.
Rank(r, ok) ==
  /\ reqs[r].pc = "rank"
  /\ LET rank == IF ok THEN Zrevrank(store, reqs[r].username) ELSE Null
     IN reqs' = [reqs EXCEPT ![r] = Respond(reqs[r], 200, reqs[r].written,
                                            IF rank # Null THEN rank + 1 ELSE Null)]
  /\ UNCHANGED <<store, prior, gameVars, listVars, pageVars>>

InitServer ==
  /\ store \in [Users -> {Null, 30}]
  /\ prior = store
  /\ reqs = [r \in ReqIds |-> IdleReq]

\* Concurrent requests against a backend whose calls may fail.
NextServer ==
  \/ \E r \in ReqIds, u \in Users, s \in {10, 50} : Receive(r, u, s, MaxReqs, MaxReqs)
  \/ \E r \in ReqIds, o \in {"ok", "notok", "throws"} : Zscore(r, o)
  \/ \E r \in ReqIds, ok \in BOOLEAN : Zadd(r, ok)
  \/ \E r \in ReqIds, ok \in BOOLEAN : Fallback(r, ok)
  \/ \E r \in ReqIds, ok \in BOOLEAN : Rank(r, ok)

\* Concurrent requests against a backend whose calls succeed.
NextRace ==
  \/ \E r \in ReqIds, u \in Users, s \in ScoreValues : Receive(r, u, s, MaxReqs, MaxReqs)
  \/ \E r \in ReqIds : Zscore(r, "ok")
  \/ \E r \in ReqIds : Zadd(r, TRUE)
  \/ \E r \in ReqIds : Rank(r, TRUE)

\* One request at a time against a backend whose calls succeed.
InitSeq ==
  /\ store = [u \in Users |-> Null]
  /\ prior = store
  /\ reqs = [r \in ReqIds |-> IdleReq]

NextSeq ==
  \/ \E r \in ReqIds, s \in ScoreValues : Receive(r, UserOrder[1], s, SeqReqs, 1)
  \/ \E r \in ReqIds : Zscore(r, "ok")
  \/ \E r \in ReqIds : Zadd(r, TRUE)
  \/ \E r \in ReqIds : Rank(r, TRUE)

\* ------------------------------------------------------------------------
\* Username sanitization (the handler's and the form's)
\* ------------------------------------------------------------------------

\* Usernames as sent are sequences of characters; these stand for the class
\* [a-zA-Z0-9_-], every other character is removed.
AllowedChars == {"J", "o", "h", "n", "D", "e", "a", "b", "7", "_", "-"}

UsernameLimit == 50

Rep(c, n) == [i \in 1..n |-> c]

\* String.prototype.trim()
RECURSIVE TrimStart(_)
TrimStart(t) == IF t # <<>> /\ Head(t) = " " THEN TrimStart(Tail(t)) ELSE t

RECURSIVE TrimEnd(_)
TrimEnd(t) ==
  IF t # <<>> /\ t[Len(t)] = " " THEN TrimEnd(SubSeq(t, 1, Len(t) - 1)) ELSE t

Trim(t) == TrimEnd(TrimStart(t))

\* .slice(0, 50)
CutNone(t) == t

Cut(t) == IF Len(t) > UsernameLimit THEN SubSeq(t, 1, UsernameLimit) ELSE t

\* .replace(/[^a-zA-Z0-9_-]/g, "")
IsAllowed(c) == c \in AllowedChars

StripKeepAll(t) == t

Strip(t) == SelectSeq(t, IsAllowed)

\* body.username.trim().slice(0, 50).replace(...)
sanitizeUsername(raw) == Strip(Cut(Trim(raw)))

\* The members spelled out: A is JohnDoe, B is fifty times the letter a.
JohnDoe == <<"J", "o", "h", "n", "D", "o", "e">>

Spelling(u) == IF u = UserOrder[1] THEN JohnDoe ELSE Rep("a", UsernameLimit)

\* The member a sanitized username is; Unlisted is any member other than the
\* two the set is followed for.
Unlisted == "?"

NameKey(name) ==
  IF \E u \in Users : Spelling(u) = name
  THEN CHOOSE u \in Users : Spelling(u) = name
  ELSE Unlisted

\* Usernames a request body may carry.
RawJohnDoe == <<"J", "o", "h", "n", " ", "D", "o", "e", "!", "!">>
RawBangs == <<"!", "!", "!">>

RawNames ==
  { <<>>, <<" ", " ">>, RawBangs, RawJohnDoe,
    <<" ">> \o JohnDoe \o <<" ">>,
    Rep("a", UsernameLimit + 1),
    <<" ">> \o Rep("a", UsernameLimit) \o <<"b">>,
    Rep("!", UsernameLimit) \o <<"a">> }

\* A POST arrives: the checks of the body, the sanitization and the check of
\* its result; no call of the backend is made before they pass.
ReceiveRaw(r, raw, s, limit, inflight) ==
  /\ reqs[r].pc = "idle"
  /\ r <= limit
  /\ \A q \in ReqIds : q < r => reqs[q].pc # "idle"
  /\ Cardinality({q \in ReqIds : reqs[q].pc \notin {"idle", "done"}}) < inflight
  /\ LET name == sanitizeUsername(raw)
         rq == [IdleReq EXCEPT !.raw = raw, !.name = name, !.score = s]
     IN reqs' = [reqs EXCEPT ![r] =
                   IF raw = <<>> \/ s < 0 \/ Len(name) = 0
                   THEN Respond(rq, 400, FALSE, Null)
                   ELSE [rq EXCEPT !.pc = "zscore", !.username = NameKey(name)]]
  /\ UNCHANGED <<store, prior, gameVars, listVars, pageVars>>

InitSanitize ==
  /\ store = [u \in Users \cup {Unlisted} |-> Null]
  /\ prior = store
  /\ reqs = [r \in ReqIds |-> IdleReq]

\* Requests with any body, against a backend whose calls succeed.
NextSanitize ==
  \/ \E r \in ReqIds, raw \in RawNames, s \in {10, 50, 0 - 5} :
       ReceiveRaw(r, raw, s, MaxReqs, MaxReqs)
  \/ \E r \in ReqIds : Zscore(r, "ok")
  \/ \E r \in ReqIds : Zadd(r, TRUE)
  \/ \E r \in ReqIds : Rank(r, TRUE)

\* ------------------------------------------------------------------------
\* Leaderboard server: GET /api/leaderboard
\* ------------------------------------------------------------------------

\* Members the sorted set may hold when it is listed, in the byte order Redis
\* uses between members of equal score.
MemberOrder ==
  <<"A", "B", "C", "D", "E", "F", "G", "H", "I", "J", "K", "L", "M", "N",
    "O", "P", "Q", "R", "S", "T", "U", "V", "W", "X", "Y", "Z", "a">>
Members == {MemberOrder[i] : i \in 1..Len(MemberOrder)}
MemberIndex(m) == CHOOSE i \in 1..Len(MemberOrder) : MemberOrder[i] = m

\* ["ZREVRANGE", "leaderboard", "0", "24", "WITHSCORES"]
RangeStart0 == 0
RangeStop == 24

\* ZREVRANGE: the members from rank start to rank stop, by score descending,
\* ties by member descending.
Present(st) == {m \in DOMAIN st : st[m] # Null}

RevRank(st, m) ==
  Cardinality({v \in Present(st) : \/ st[v] > st[m]
                                   \/ st[v] = st[m] /\ MemberIndex(v) > MemberIndex(m)})

Zrevrange(st, start, stop) ==
  LET last == IF Cardinality(Present(st)) - 1 < stop
              THEN Cardinality(Present(st)) - 1 ELSE stop
  IN [i \in 1..(last - start + 1) |->
        CHOOSE m \in Present(st) : RevRank(st, m) = start + i - 1]

\* JSON values of the reply.  A string is a member name (number NaN) or the
\* numeral of a score (number its value).
NaN == 0 - 2
JName(m) == [type |-> "string", text |-> m, number |-> NaN]
JNumeral(x) == [type |-> "string", text |-> "0-9", number |-> x]
JArray(items) == [type |-> "array", items |-> items]
JObject(key, value) == [type |-> "object", key |-> key, value |-> value]

\* WITHSCORES: member1, score1, member2, score2, ...
WithScores(st, ms) ==
  [i \in 1..(2 * Len(ms)) |->
     IF i % 2 = 1 THEN JName(ms[(i + 1) \div 2]) ELSE JNumeral(st[ms[i \div 2]])]

\* The body the REST call answers with: the array itself, or the array
\* wrapped in {result: ...} as submit-score.ts decodes it.
ReplyShapes == {"bare", "wrapped"}

ReplyBody(st, shape) ==
  LET array == JArray(WithScores(st, Zrevrange(st, RangeStart0, RangeStop)))
  IN IF shape = "wrapped" THEN JObject("result", array) ELSE array

\* Number(value)
RECURSIVE NumberOf(_)
NumberOf(v) ==
  IF v.type = "string" THEN v.number
  ELSE IF v.type = "array"
       THEN IF Len(v.items) = 0 THEN 0
            ELSE IF Len(v.items) = 1 THEN NumberOf(v.items[1]) ELSE NaN
       ELSE NaN

\* The loop over the alternating array.
RECURSIVE ArrayEntries(_, _, _)
ArrayEntries(items, i, entries) ==
  IF i > Len(items) THEN entries
  ELSE LET username == items[i]
           scoreNum == NumberOf(items[i + 1])
       IN ArrayEntries(items, i + 2,
            IF username.text # "" /\ scoreNum # NaN
            THEN Append(entries, [username |-> username.text, score |-> scoreNum,
                                  position |-> Len(entries) + 1])
            ELSE entries)

\* The branches on the parsed reply: array, object, anything else.
ParseEntries(leaderboard) ==
  IF leaderboard.type = "array"
  THEN IF Len(leaderboard.items) > 0 /\ Len(leaderboard.items) % 2 = 0
       THEN ArrayEntries(leaderboard.items, 1, <<>>)
       ELSE <<>>
  ELSE IF leaderboard.type = "object"
       THEN LET scoreNum == NumberOf(leaderboard.value)
            IN IF scoreNum # NaN /\ leaderboard.key # ""
               THEN <<[username |-> leaderboard.key, score |-> scoreNum,
                       position |-> 1]>>
               ELSE <<>>
       ELSE <<>>

NoListResp == [status |-> 0, hasEntries |-> FALSE, entries |-> <<>>]

\* outcome is history: how the ZREVRANGE call ended.
IdleList == [pc |-> "idle", method |-> "", outcome |-> "none", resp |-> NoListResp]

\* res.statusCode = ...; res.end(...): hasEntries tells whether the body has
\* an entries field.
ListRespond(rq, status, hasEntries, entries) ==
  [rq EXCEPT !.pc = "done",
             !.resp = [status |-> status, hasEntries |-> hasEntries,
                       entries |-> entries]]

\* A request arrives: the preflight, the method check, getRedisClient().
ListReceive(method, configured) ==
  /\ lreq.pc = "idle"
  /\ LET rq == [lreq EXCEPT !.method = method]
     IN lreq' = IF method = "OPTIONS" THEN ListRespond(rq, 200, FALSE, <<>>)
                ELSE IF method # "GET" THEN ListRespond(rq, 405, FALSE, <<>>)
                ELSE IF ~configured THEN ListRespond(rq, 500, TRUE, <<>>)
                ELSE [rq EXCEPT !.pc = "zrevrange"]
  /\ UNCHANGED <<serverVars, gameVars, pageVars>>

\* How the REST call may end: a body of either shape, a body that is not
\* JSON, a "no such key" answer (404 or so worded), another error status, a
\* rejected fetch.
ListOutcomes == ReplyShapes \cup {"text", "nokey", "status", "throws"}

\* await fetch(ZREVRANGE), the parse and res.end(...).
ListReply(outcome) ==
  /\ lreq.pc = "zrevrange"
  /\ LET rq == [lreq EXCEPT !.outcome = outcome]
     IN lreq' =
          IF outcome \in ReplyShapes
          THEN ListRespond(rq, 200, TRUE, ParseEntries(ReplyBody(store, outcome)))
          ELSE IF outcome \in {"text", "nokey"}
               THEN ListRespond(rq, 200, TRUE, <<>>)
               ELSE ListRespond(rq, 500, TRUE, <<>>)
  /\ UNCHANGED <<serverVars, gameVars, pageVars>>

NextList ==
  \/ \E method \in {"GET", "POST", "OPTIONS"}, configured \in BOOLEAN :
       ListReceive(method, configured)
  \/ \E outcome \in ListOutcomes : ListReply(outcome)

\* The sets listed: the first n members with equal, rising, falling or
\* pairwise equal scores, and the set {A: 100, B: 90, C: 100}.
PatternScore(pattern, i) ==
  IF pattern = "equal" THEN 100
  ELSE IF pattern = "rising" THEN 10 * i
  ELSE IF pattern = "falling" THEN 500 - 10 * i
  ELSE 10 * (i \div 2)

StoreOf(n, pattern) ==
  [m \in Members |-> IF MemberIndex(m) <= n THEN PatternScore(pattern, MemberIndex(m))
                     ELSE Null]

ExampleStore ==
  [m \in Members |-> IF m \in {"A", "C"} THEN 100 ELSE IF m = "B" THEN 90 ELSE Null]

ListStores ==
  {ExampleStore} \cup
  {StoreOf(n, pattern) : n \in 0..Len(MemberOrder),
                         pattern \in {"equal", "rising", "falling", "paired"}}

\* ------------------------------------------------------------------------
\* Claims about the Submit handler
\* ------------------------------------------------------------------------

Done(r) == reqs[r].pc = "done"
Arrived == {r \in ReqIds : reqs[r].pc # "idle"}
Quiescent == Arrived # {} /\ \A r \in Arrived : Done(r)

RECURSIVE SetMax(_)
SetMax(S) ==
  IF S = {} THEN Null
  ELSE LET x == CHOOSE y \in S : TRUE IN Max(x, SetMax(S \ {x}))

\* The best of the score stored before and the scores submitted for u.
BestSubmitted(u) ==
  SetMax({prior[u]} \cup {reqs[r].score : r \in {q \in Arrived : reqs[q].username = u}})

\* C1: once all concurrent Submit requests have completed, every username's
\* stored score is the maximum of the score stored before and all the scores
\* submitted for it.
C1_FinalIsMaximum == Quiescent => \A u \in Users : store[u] = BestSubmitted(u)

\* The best score among the first k requests of the sequential run.
RunMax(k) == SetMax({reqs[r].score : r \in 1..k})

\* C2: processed one after another, a request succeeds (and overwrites) iff
\* nothing is stored or its score is strictly greater than the stored one,
\* every answer is a 200, the stored score is the running maximum, and
\* 50, 30, 80, 80, 10 end with 80 stored and flags true, false, true, false,
\* false.
C2_SequentialMaxScore ==
  LET k == Cardinality(Arrived)
      u == UserOrder[1]
  IN /\ \A r \in Arrived : Done(r) =>
          /\ reqs[r].resp.status = 200
          /\ reqs[r].resp.success = (RunMax(r - 1) = Null \/ reqs[r].score > RunMax(r - 1))
          /\ reqs[r].resp.success = reqs[r].written
     /\ store[u] = IF k > 0 /\ ~Done(k) /\ ~reqs[k].written THEN RunMax(k - 1) ELSE RunMax(k)
     /\ (Quiescent /\ k = 5 /\ [r \in 1..5 |-> reqs[r].score] = <<50, 30, 80, 80, 10>>)
          => /\ store[u] = 80
             /\ [r \in 1..5 |-> reqs[r].resp.success] = <<TRUE, FALSE, TRUE, FALSE, FALSE>>

C2_Witness ==
  /\ Quiescent
  /\ [r \in 1..5 |-> reqs[r].score] = <<50, 30, 80, 80, 10>>
  /\ store[UserOrder[1]] = 80

\* C3: a request one of whose backend calls failed (the lookup, or the write
\* with its fallback) is answered with an error and has written nothing; a
\* failed lookup never lets a lower score replace a higher stored one.
C3_FailureLeavesStore ==
  \A r \in Arrived :
    /\ (Done(r) /\ reqs[r].lookup \in {"notok", "throws"}) =>
          (reqs[r].resp.status = 500 /\ ~reqs[r].written)
    /\ (reqs[r].lookup \in {"notok", "throws"} /\ reqs[r].written) =>
          reqs[r].replaced < reqs[r].score
    /\ (Done(r) /\ ~reqs[r].written /\ ShouldWrite(reqs[r].existingScore, reqs[r].score))
          => reqs[r].resp.status = 500

\* ------------------------------------------------------------------------
\* The game session: src/game.ts
\* ------------------------------------------------------------------------

\* Fractions (positions in y, velocities, Math.random() results) are kept in
\* units of 1/Scale.
Scale == 10 * 10 * 10

\* window.innerWidth and window.innerHeight, as setupCanvasSize reads them.
CANVAS_WIDTH == 800
CANVAS_HEIGHT == 600
FLOOR_Y == CANVAS_HEIGHT - 50
CHARACTER_START_X == (CANVAS_WIDTH * 15) \div 100

\* CONFIG as written, which the field initialisers see before setupCanvasSize.
CONFIG_FLOOR_Y == 500
CONFIG_CHARACTER_START_X == 100

CHARACTER_SIZE == 40
JUMP_HEIGHT == 3
GRAVITY == Scale \div 10
OBSTACLE_SPEED == 3
OBSTACLE_SPACING == 300
BLOCK_SIZE == 40
FLOOR_SPEED == 3
TREE_SPEED == 1
TREE_SPAWN_MIN_FRAMES == 150
TREE_SPAWN_MAX_FRAMES == 400
TREE_MIN_HEIGHT == 320
TREE_MAX_HEIGHT == 400

FrameMs == 16
GameOverAnimationDuration == 2000
ShakeDuration == 2000
MadDuration == 2000
InitialLives == 3

\* Math.sqrt, rounded to the nearest unit.
Sqrt(n) == CHOOSE r \in 0..(10 * Scale) :
             (2 * r - 1) * (2 * r - 1) < 4 * n /\ 4 * n <= (2 * r + 1) * (2 * r + 1)

\* -Math.sqrt(2 * GRAVITY * JUMP_HEIGHT * BLOCK_SIZE), in 1/Scale px per tick.
JUMP_STRENGTH == 0 - Sqrt(2 * GRAVITY * JUMP_HEIGHT * BLOCK_SIZE * Scale)

\* Math.round(n / d) and Math.floor(n / d) for n >= 0, d > 0.
Round(n, d) == (2 * n + d) \div (2 * d)
Floor(n, d) == n \div d

DifficultyLevels == <<"EASY", "MEDIUM", "HARD">>

DifficultySettings(d) ==
  CASE d = "EASY" -> 300
    [] d = "MEDIUM" -> 200
    [] d = "HARD" -> 500

\* The images of OBSTACLE_IMAGE_PATHS as <<width, height>>; "none" is null.
\* The mad variant of an image has the dimensions of the original.
ImageDims(img) ==
  CASE img \in {"DAN", "DAN-MAD"} -> <<1, 2>>
    [] img \in {"SAM", "SAM-MAD"} -> <<1, 1>>

MadImage(img) == IF img = "DAN" THEN "DAN-MAD" ELSE "SAM-MAD"

\* The tree images as <<width, height>>.
TreeImageDims == <<1, 2>>

\* Ticks of the run so far, and Date.now() counted from the start of the run
\* at 16 ms per frame.
TicksOf(offset) == offset \div FLOOR_SPEED
NowOf(offset) == TicksOf(offset) * FrameMs

GroundY == (FLOOR_Y - CHARACTER_SIZE) * Scale
Grounded(y) == y >= GroundY

\* new Obstacle(startX, blockCount, image, imagePath); blockCount is kept as
\* history of the constructor's argument.
NewObstacle(startX, blockCount, image) ==
  [x |-> startX,
   blocks |-> [i \in 1..blockCount |-> FLOOR_Y - BLOCK_SIZE - (i - 1) * BLOCK_SIZE],
   image |-> image, originalImage |-> image, madUntil |-> 0,
   blockCount |-> blockCount]

\* obstacleWidth as <<numerator, denominator>>: BLOCK_SIZE without an image,
\* else blocks.length * BLOCK_SIZE * image.width / image.height.
ObstacleWidth(o) ==
  IF o.image # "none" /\ Len(o.blocks) > 0
  THEN <<Len(o.blocks) * BLOCK_SIZE * ImageDims(o.image)[1], ImageDims(o.image)[2]>>
  ELSE <<BLOCK_SIZE, 1>>

\* checkCollision(obstacle) for the character at (cx, cy).
CheckCollision(o, cx, cy) ==
  LET w == ObstacleWidth(o)
      charLeft == cx
      charRight == cx + CHARACTER_SIZE
      charTop == cy
      charBottom == cy + CHARACTER_SIZE * Scale
  IN /\ charRight > o.x
     /\ charLeft * w[2] < o.x * w[2] + w[1]
     /\ \E i \in 1..Len(o.blocks) :
          /\ charBottom > o.blocks[i] * Scale
          /\ charTop < (o.blocks[i] + BLOCK_SIZE) * Scale

\* makeObstacleMad(obstacle), madLoaded telling whether the mad image is there.
MakeObstacleMad(o, now, madLoaded) ==
  IF o.originalImage # "none" /\ madLoaded
  THEN [o EXCEPT !.image = MadImage(o.originalImage), !.madUntil = now + MadDuration]
  ELSE o

RestoreOriginalImage(o) == [o EXCEPT !.image = o.originalImage, !.madUntil = 0]

RemoveAt(seq, i) == SubSeq(seq, 1, i - 1) \o SubSeq(seq, i + 1, Len(seq))

RECURSIVE SumBlocks(_)
SumBlocks(obs) == IF obs = <<>> THEN 0 ELSE Len(Head(obs).blocks) + SumBlocks(Tail(obs))

\* Bounds of the exploration: PLAYING ticks per run, and the period (in ticks
\* of the run) at which the player's keys and buttons arrive while PLAYING.
MaxTicks == 900
PlayTicks == 700
FreshTicks == 320
InputPeriod == 45

InputAllowed(D) == state # "PLAYING" \/ TicksOf(floorOffset) % D.period = 0

\* CONFIG.TREE_SPAWN_MIN_FRAMES + Math.floor(Math.random() * (MAX - MIN))
TreeSpawnFrame(u) ==
  TREE_SPAWN_MIN_FRAMES + Floor(u * (TREE_SPAWN_MAX_FRAMES - TREE_SPAWN_MIN_FRAMES), Scale)

\* The state after the constructor.
InitGame ==
  /\ state = "START"
  /\ score = 0
  /\ difficulty = "MEDIUM"
  /\ characterX = CONFIG_CHARACTER_START_X
  /\ characterY = (CONFIG_FLOOR_Y - CHARACTER_SIZE) * Scale
  /\ characterVelocityY = 0
  /\ canDoubleJump = FALSE
  /\ hasDoubleJumped = FALSE
  /\ lives = InitialLives
  /\ isInCollision = FALSE
  /\ characterRotation = 0
  /\ gameOverAnimationTime = 0
  /\ shakeTime = 0
  /\ shakeOffsetX = 0
  /\ shakeOffsetY = 0
  /\ isBarking = FALSE
  /\ floorOffset = 0
  /\ obstacles = <<>>
  /\ obstacleTimer = 0
  /\ obstacleSpacing = OBSTACLE_SPACING
  /\ trees = <<>>
  /\ treeSpawnCounter = 0
  /\ nextTreeSpawnFrame = TreeSpawnFrame(0)
  /\ spawnedBlocks = 0
  /\ destroyedBlocks = 0
  /\ impulses = 0
  /\ overlapRun = [len |-> 0, lost |-> 0]

\* ------------------------------------------------------------------------
\* The page: the leaderboard panel and the score form of the game
\* ------------------------------------------------------------------------

\* Rows of the panel (padLeaderboardEntries pads to 25).
PanelRows == 25

\* Requests of one caller the page keeps in flight; a request issued beyond
\* that is one the network never answers.
MaxInFlight == 1
MaxPosts == 1

\* Who awaits a GET /api/leaderboard: initializeLeaderboard(), the then() of
\* returnToStart(), the await of handleScoreSubmission().
FetchKinds == {"initialize", "return", "submitted"}

StartFetch(f, kind) ==
  [f EXCEPT ![kind] = IF @ < MaxInFlight THEN @ + 1 ELSE @]

\* leaderboardEntries: real entries first, then the "-" rows.
NoRows == [real |-> 0, pad |-> 0]

\* this.leaderboardEntries = entries; padLeaderboardEntries()
padLeaderboardEntries(real) ==
  [real |-> real, pad |-> IF real < PanelRows THEN PanelRows - real ELSE 0]

Min(a, b) == IF a <= b THEN a ELSE b

\* displayLeaderboardRange(range): the slice rendered.
RangeStart(range) == IF range = 0 THEN 0 ELSE IF range = 1 THEN 10 ELSE 20
RangeEnd(range) == IF range = 0 THEN 10 ELSE IF range = 1 THEN 20 ELSE PanelRows

displayLeaderboardRange(e, range) ==
  LET from == RangeStart(range)
      to == Min(RangeEnd(range), e.real + e.pad)
      reals == Max(0, Min(to, e.real) - from)
  IN [range |-> range, real |-> reals, pad |-> Max(0, to - from) - reals]

NotRendered == [range |-> Null, real |-> 0, pad |-> 0]

\* The id of the interval timer (window.setInterval).
TimerId == 2 - 1

\* Usernames as typed: sequences of characters.
NoName == <<>>

NoMessage == [type |-> "none", text |-> "none"]

\* clearInterval(h) on a non-null handle, as both operations below do.
ClearExisting(h, n) == IF h # Null THEN n - 1 ELSE n

\* A start that leaves the interval it replaces running.
startWithoutClearing(h, n) == <<TimerId, n + 1>>

\* startLeaderboardAutoScroll(): <<handle, live timers>> after the call.
startLeaderboardAutoScroll(h, n) == <<TimerId, ClearExisting(h, n) + 1>>

\* stopLeaderboardAutoScroll()
stopLeaderboardAutoScroll(h, n) == <<Null, ClearExisting(h, n)>>

\* The page after construction: initializeLeaderboard() has sent its request;
\* saved is the username an earlier visit left in localStorage.
InitPage(saved, dev) ==
  /\ leaderboardEntries = NoRows
  /\ displayed = NotRendered
  /\ currentLeaderboardRange = 0
  /\ leaderboardScrollInterval = Null
  /\ liveIntervals = 0
  /\ fetches = [k \in FetchKinds |-> IF k = "initialize" THEN 1 ELSE 0]
  /\ usernameInput = NoName
  /\ savedUsername = saved
  /\ posts = <<>>
  /\ submitMessage = NoMessage
  /\ submitDisabled = FALSE
  /\ devHost = dev

\* finishGameOver(): the form is cleared and the saved username loaded.
FormOnGameOver ==
  /\ usernameInput' = savedUsername
  /\ submitMessage' = NoMessage
  /\ UNCHANGED <<savedUsername, posts, submitDisabled, devHost>>

\* resetGame(); u is the Math.random() of the tree timer.
resetGame(u) ==
  /\ score' = 0
  /\ lives' = InitialLives
  /\ characterX' = CHARACTER_START_X
  /\ characterY' = GroundY
  /\ characterVelocityY' = 0
  /\ floorOffset' = 0
  /\ obstacles' = <<>>
  /\ obstacleTimer' = 0
  /\ trees' = <<>>
  /\ treeSpawnCounter' = 0
  /\ nextTreeSpawnFrame' = TreeSpawnFrame(u)
  /\ canDoubleJump' = FALSE
  /\ hasDoubleJumped' = FALSE
  /\ isInCollision' = FALSE
  /\ characterRotation' = 0
  /\ gameOverAnimationTime' = 0
  /\ shakeTime' = 0
  /\ shakeOffsetX' = 0
  /\ shakeOffsetY' = 0
  /\ isBarking' = FALSE
  /\ spawnedBlocks' = 0
  /\ destroyedBlocks' = 0
  /\ impulses' = 0
  /\ overlapRun' = [len |-> 0, lost |-> 0]
  /\ UNCHANGED <<difficulty, obstacleSpacing>>

\* startGame() and restartGame()
startGame(u) ==
  /\ LET stopped == stopLeaderboardAutoScroll(leaderboardScrollInterval, liveIntervals)
     IN /\ leaderboardScrollInterval' = stopped[1]
        /\ liveIntervals' = stopped[2]
  /\ state' = "PLAYING"
  /\ resetGame(u)
  /\ UNCHANGED <<leaderboardEntries, displayed, currentLeaderboardRange, fetches,
                 formVars>>

\* returnToStart()
returnToStart(u) ==
  /\ state' = "START"
  /\ resetGame(u)
  /\ fetches' = StartFetch(fetches, "return")
  /\ UNCHANGED <<leaderboardEntries, displayed, currentLeaderboardRange,
                 leaderboardScrollInterval, liveIntervals, formVars>>

\* gameOver() is part of the tick; finishGameOver()
finishGameOver ==
  /\ state' = "GAME_OVER"
  /\ FormOnGameOver
  /\ UNCHANGED panelVars
  /\ UNCHANGED <<score, difficulty, characterVars, lives, isInCollision,
                 animationVars, shakeVars, floorOffset, obstacleVars, treeVars,
                 historyVars>>

\* changeDifficulty(game, direction)
DifficultyIndex(d) == CHOOSE i \in 1..Len(DifficultyLevels) : DifficultyLevels[i] = d

NextDifficulty(d, direction) ==
  LET newIndex == (DifficultyIndex(d) - 1) + direction
  IN IF newIndex < 0 THEN DifficultyLevels[Len(DifficultyLevels)]
     ELSE IF newIndex >= Len(DifficultyLevels) THEN DifficultyLevels[1]
     ELSE DifficultyLevels[newIndex + 1]

changeDifficulty(direction) ==
  /\ difficulty' = NextDifficulty(difficulty, direction)
  /\ obstacleSpacing' = DifficultySettings(difficulty')
  /\ UNCHANGED <<state, score, characterVars, lives, isInCollision, animationVars,
                 shakeVars, floorOffset, obstacles, obstacleTimer, treeVars,
                 historyVars>>

\* jump(): the velocity and the two flags it leaves.
JumpOnceOnly(y, v, can, has) ==
  IF Grounded(y) THEN <<JUMP_STRENGTH, FALSE, FALSE>> ELSE <<v, can, has>>

JumpNoGate(y, v, can, has) ==
  IF Grounded(y) THEN <<JUMP_STRENGTH, TRUE, FALSE>> ELSE <<JUMP_STRENGTH, can, has>>

JumpKeepsCan(y, v, can, has) ==
  IF Grounded(y) THEN <<JUMP_STRENGTH, TRUE, FALSE>>
  ELSE IF can /\ ~has THEN <<JUMP_STRENGTH, TRUE, TRUE>>
  ELSE <<v, can, has>>

JumpEffect(y, v, can, has) ==
  IF Grounded(y) THEN <<JUMP_STRENGTH, TRUE, FALSE>>
  ELSE IF can /\ ~has THEN <<JUMP_STRENGTH, FALSE, TRUE>>
  ELSE <<v, can, has>>

jump ==
  LET e == JumpEffect(characterY, characterVelocityY, canDoubleJump, hasDoubleJumped)
  IN /\ characterVelocityY' = e[1]
     /\ canDoubleJump' = e[2]
     /\ hasDoubleJumped' = e[3]
     /\ impulses' = IF e # <<characterVelocityY, canDoubleJump, hasDoubleJumped>>
                    THEN impulses + 1 ELSE impulses
     /\ UNCHANGED <<state, score, difficulty, characterX, characterY, lives,
                    isInCollision, animationVars, shakeVars, floorOffset,
                    obstacleVars, treeVars, spawnedBlocks, destroyedBlocks,
                    overlapRun>>

\* destroyBlock(): the minimum number of blocks an attack leaves is 2.
MinBlocksLoose == 2 - 1
MinBlocks == 2

IsOnScreen(o) ==
  LET w == ObstacleWidth(o)
  IN o.x * w[2] + w[1] > 0 /\ o.x < CANVAS_WIDTH

\* The loop of destroyBlock over obstacles[i..]: the index of nearestObstacle
\* (0 for null) given the best found so far.
RECURSIVE NearestObstacle(_, _, _, _, _)
NearestObstacle(obs, cx, i, best, minDistance) ==
  IF i > Len(obs) THEN best
  ELSE LET o == obs[i]
           distance == o.x - cx
       IN IF /\ o.x > cx
             /\ IsOnScreen(o)
             /\ (best = 0 \/ distance < minDistance)
             /\ Len(o.blocks) > MinBlocks
          THEN NearestObstacle(obs, cx, i + 1, i, distance)
          ELSE NearestObstacle(obs, cx, i + 1, best, minDistance)

destroyBlock ==
  LET n == NearestObstacle(obstacles, characterX, 1, 0, 0)
  IN IF n # 0 /\ Len(obstacles[n].blocks) > MinBlocks
     THEN /\ obstacles' = [obstacles EXCEPT ![n].blocks = SubSeq(@, 1, Len(@) - 1)]
          /\ shakeTime' = 0
          /\ isBarking' = TRUE
          /\ destroyedBlocks' = destroyedBlocks + 1
          /\ UNCHANGED <<state, score, difficulty, characterVars, lives,
                         isInCollision, animationVars, shakeOffsetX, shakeOffsetY,
                         floorOffset, obstacleTimer, obstacleSpacing, treeVars,
                         spawnedBlocks, impulses, overlapRun>>
     ELSE UNCHANGED gameVars

\* The "return" that ends the animation branch of update(): nothing below it
\* runs.
AnimationFallsThrough ==
  /\ characterY' = characterY + characterVelocityY + GRAVITY
  /\ UNCHANGED <<score, difficulty, characterX, characterVelocityY, canDoubleJump,
                 hasDoubleJumped, lives, isInCollision, shakeVars, floorOffset,
                 obstacleVars, treeVars, historyVars>>

AnimationReturns ==
  UNCHANGED <<score, difficulty, characterVars, lives, isInCollision, shakeVars,
              floorOffset, obstacleVars, treeVars, historyVars>>

\* "progress >= 1" for progress = Math.min(time / duration, 1).
AnimationDoneEarly(t) == t + FrameMs >= GameOverAnimationDuration

AnimationDone(t) == t >= GameOverAnimationDuration

\* update() while GAME_OVER_ANIMATING: the death animation, then finishGameOver().
TickAnimating ==
  /\ state = "GAME_OVER_ANIMATING"
  /\ LET t == gameOverAnimationTime + FrameMs
         reached == AnimationDone(t)
     IN /\ gameOverAnimationTime' = t
        /\ characterRotation' =
             IF t >= GameOverAnimationDuration THEN 180 * Scale
             ELSE (t * 180 * Scale) \div GameOverAnimationDuration
        /\ state' = IF reached THEN "GAME_OVER" ELSE state
        /\ IF reached THEN FormOnGameOver ELSE UNCHANGED formVars
  /\ UNCHANGED panelVars
  /\ AnimationReturns

\* The shake animation at the head of update(), for the Math.random() results
\* ux and uy: <<shakeTime, shakeOffsetX, shakeOffsetY, isBarking>> after it.
ShakeStep(ux, uy) ==
  IF shakeTime >= 0 /\ shakeTime < ShakeDuration
  THEN LET t == shakeTime + FrameMs
           \* (u - 0.5) * 2 * 5 * (1 - t / shakeDuration)
           offset(u) == ((2 * u - Scale) * 5 * (ShakeDuration - t)) \div ShakeDuration
       IN IF t >= ShakeDuration
          THEN <<0 - 1, 0, 0, FALSE>>
          ELSE <<t, offset(ux), offset(uy), isBarking>>
  ELSE <<shakeTime, shakeOffsetX, shakeOffsetY, isBarking>>

ShakeActive == shakeTime >= 0 /\ shakeTime < ShakeDuration

ApplyShake(ux, uy) ==
  LET sh == ShakeStep(ux, uy)
  IN /\ shakeTime' = sh[1]
     /\ shakeOffsetX' = sh[2]
     /\ shakeOffsetY' = sh[3]
     /\ isBarking' = sh[4]

\* update() in START and GAME_OVER: the shake animation only.
TickIdle(D) ==
  /\ state \in {"START", "GAME_OVER"}
  /\ ShakeActive
  /\ \E ux \in D.shake, uy \in D.shake : ApplyShake(ux, uy)
  /\ UNCHANGED <<state, score, difficulty, characterVars, lives, isInCollision,
                 animationVars, floorOffset, obstacleVars, treeVars, historyVars>>

\* new Tree(startX, image) for the Math.random() result u: width and height in
\* 1/Scale px.
NewTree(startX, u) ==
  LET height == TREE_MIN_HEIGHT * Scale + (TREE_MAX_HEIGHT - TREE_MIN_HEIGHT) * u
  IN [x |-> startX, height |-> height,
      width |-> (TreeImageDims[1] * height) \div TreeImageDims[2]]

\* The tree part of update(): <<trees, treeSpawnCounter, nextTreeSpawnFrame>>
\* after the spawn attempt; hasImage tells whether getRandomTreeImage() found
\* an image.
TreeSpawn(hasImage, uh, uf) ==
  LET counter == treeSpawnCounter + 1
  IN IF counter >= nextTreeSpawnFrame
     THEN IF hasImage
          THEN LET canSpawn ==
                     \/ Len(trees) = 0
                     \/ ~(2 * (CANVAS_WIDTH - trees[Len(trees)].x) < CANVAS_WIDTH)
               IN IF canSpawn
                  THEN <<Append(trees, NewTree(CANVAS_WIDTH, uh)), 0, TreeSpawnFrame(uf)>>
                  ELSE <<trees, counter, nextTreeSpawnFrame>>
          ELSE <<trees, 0, TreeSpawnFrame(uf)>>
     ELSE <<trees, counter, nextTreeSpawnFrame>>

\* "Move trees": every tree moves, the ones fully off screen are removed.
RECURSIVE MoveTrees(_)
MoveTrees(ts) ==
  IF ts = <<>> THEN <<>>
  ELSE LET t == [Head(ts) EXCEPT !.x = @ - TREE_SPEED]
       IN IF t.x * Scale + t.width < 0
          THEN MoveTrees(Tail(ts))
          ELSE <<t>> \o MoveTrees(Tail(ts))

\* What the collision branch of the loop does to the flag when it deducts a
\* life.
FlagAfterHitUnset(hit, flag) == flag

FlagAfterHit(hit, flag) == IF hit THEN TRUE ELSE flag

\* "!this.isInCollision": the gate of the collision branch, one flag for
\* all obstacles.
DamageGateOpen(flag) == TRUE

DamageGate(flag) == ~flag

\* What retiring an obstacle adds to the score.
RetireScoreOriginal(o) == o.blockCount

RetireScore(o) == Len(o.blocks)

\* "if (this.lives <= 0)": the game is over.
OutOfLivesLate(l) == l < 0

OutOfLivesEarly(l) == l <= 1

OutOfLives(l) == l <= 0

\* "Remove obstacles that are off screen": obstacle.x + BLOCK_SIZE < 0.
OffScreenNever(o) == FALSE

OffScreen(o) == o.x + BLOCK_SIZE < 0

\* "Move obstacles": the loop body for index i down to 1, on the accumulator
\* [obs, score, lives, inCol, over]; over is the return after gameOver().
RECURSIVE MoveObstacles(_, _, _, _, _, _)
MoveObstacles(i, acc, cx, cy, now, madLoaded) ==
  IF i = 0 \/ acc.over THEN acc
  ELSE LET moved == [acc.obs[i] EXCEPT !.x = @ - OBSTACLE_SPEED]
           retired == OffScreen(moved)
           hit == DamageGate(acc.inCol) /\ CheckCollision(moved, cx, cy)
           struck == IF hit THEN MakeObstacleMad(moved, now, madLoaded) ELSE moved
           livesNow == IF hit THEN acc.lives - 1 ELSE acc.lives
           over == hit /\ OutOfLives(livesNow)
           final == IF ~over /\ struck.madUntil # 0 /\ now >= struck.madUntil
                    THEN RestoreOriginalImage(struck) ELSE struck
       IN MoveObstacles(i - 1,
            [obs |-> IF retired THEN RemoveAt(acc.obs, i)
                     ELSE [acc.obs EXCEPT ![i] = final],
             score |-> IF retired THEN acc.score + RetireScore(moved) ELSE acc.score,
             lives |-> livesNow,
             inCol |-> FlagAfterHit(hit, acc.inCol),
             over |-> over],
            cx, cy, now, madLoaded)

\* The first scan of update(): is the character colliding with any obstacle?
CurrentlyColliding(obs, cx, cy) ==
  \E i \in 1..Len(obs) : CheckCollision(obs[i], cx, cy)

\* Math.round(CONFIG.OBSTACLE_SPACING * (0.5 + 1.0 * Math.random()))
DrawSpacing(u) == Round(OBSTACLE_SPACING * (Scale \div 2 + u), Scale)

DrawNoBlocks(u) == 0

\* Math.floor(Math.random() * 9) + 2
DrawBlockCount(u) == Floor(u * 9, Scale) + 2

\* "Ground collision": <<y, velocityY, canDoubleJump, hasDoubleJumped>> after
\* the clamp.
GroundClampKeepsJump(y, v, can, has) ==
  IF Grounded(y) THEN <<GroundY, v, can, has>> ELSE <<y, v, can, has>>

GroundClamp(y, v, can, has) ==
  IF Grounded(y) THEN <<GroundY, 0, FALSE, FALSE>> ELSE <<y, v, can, has>>

\* update() while PLAYING.  D holds the sets the random results and the
\* asset-dependent results are drawn from.
TickPlaying(D) ==
  /\ state = "PLAYING"
  /\ TicksOf(floorOffset) < D.maxTicks
  /\ LET spawn == obstacleTimer + 1 >= obstacleSpacing
         treeDue == treeSpawnCounter + 1 >= nextTreeSpawnFrame
         only(S, cond) == IF cond THEN S ELSE {CHOOSE x \in S : TRUE}
     IN \E ux \in only(D.shake, ShakeActive), uy \in only(D.shake, ShakeActive),
           us \in only(D.spacing, spawn), ub \in only(D.blocks, spawn),
           img \in only(D.image, spawn), hasTree \in only(D.tree, treeDue),
           uh \in only(D.treeHeight, treeDue), uf \in only(D.treeFrames, treeDue),
           madLoaded \in D.mad :
        LET \* character physics and ground collision
            v1 == characterVelocityY + GRAVITY
            y1 == characterY + v1
            landed == Grounded(y1)
            clamped == GroundClamp(y1, v1, canDoubleJump, hasDoubleJumped)
            cy == clamped[1]
            \* obstacle spawn
            obs1 == IF spawn
                    THEN Append(obstacles,
                                NewObstacle(CANVAS_WIDTH, DrawBlockCount(ub), img))
                    ELSE obstacles
            \* re-arm of the collision flag
            inCol1 == IF isInCollision /\ ~CurrentlyColliding(obs1, characterX, cy)
                      THEN FALSE ELSE isInCollision
            tr == TreeSpawn(hasTree, uh, uf)
            offset == floorOffset + FLOOR_SPEED
            res == MoveObstacles(Len(obs1),
                                 [obs |-> obs1, score |-> score, lives |-> lives,
                                  inCol |-> inCol1, over |-> FALSE],
                                 characterX, cy, NowOf(offset), madLoaded)
            overlap == CurrentlyColliding(res.obs, characterX, cy)
        IN /\ ApplyShake(ux, uy)
           /\ floorOffset' = offset
           /\ characterVelocityY' = clamped[2]
           /\ characterY' = cy
           /\ canDoubleJump' = clamped[3]
           /\ hasDoubleJumped' = clamped[4]
           /\ obstacleTimer' = IF spawn THEN 0 ELSE obstacleTimer + 1
           /\ obstacleSpacing' = IF spawn THEN DrawSpacing(us) ELSE obstacleSpacing
           /\ trees' = MoveTrees(tr[1])
           /\ treeSpawnCounter' = tr[2]
           /\ nextTreeSpawnFrame' = tr[3]
           /\ obstacles' = res.obs
           /\ score' = res.score
           /\ lives' = res.lives
           /\ isInCollision' = res.inCol
           /\ state' = IF res.over THEN "GAME_OVER_ANIMATING" ELSE state
           \* gameOver()
           /\ characterRotation' = IF res.over THEN 0 ELSE characterRotation
           /\ gameOverAnimationTime' = IF res.over THEN 0 ELSE gameOverAnimationTime
           /\ spawnedBlocks' = IF spawn THEN spawnedBlocks + DrawBlockCount(ub)
                               ELSE spawnedBlocks
           /\ impulses' = IF landed THEN 0 ELSE impulses
           /\ overlapRun' = IF overlap
                            THEN [len |-> overlapRun.len + 1,
                                  lost |-> overlapRun.lost + (lives - res.lives)]
                            ELSE [len |-> 0, lost |-> 0]
  /\ UNCHANGED <<difficulty, characterX, destroyedBlocks>>

Tick(D) ==
  \/ TickAnimating
  \/ TickIdle(D) /\ UNCHANGED pageVars
  \/ TickPlaying(D) /\ UNCHANGED pageVars

\* The guards of the listeners: the phases in which each one acts.
StartGuard(st) == st = "START"

RestartGuard(st) == st = "GAME_OVER"

ReturnGuard(st) == st = "GAME_OVER"

QuitGuardAny(st) == TRUE

QuitGuard(st) == st \in {"PLAYING", "GAME_OVER_ANIMATING"}

PlayGuard(st) == st = "PLAYING"

\* The Enter key and the start button.
StartPressed(D) ==
  /\ InputAllowed(D)
  /\ IF StartGuard(state)
     THEN \E u \in D.treeFrames : startGame(u)
     ELSE UNCHANGED <<gameVars, pageVars>>
  /\ UNCHANGED <<serverVars, listVars>>

\* The try-again button: restartGame().
TryAgainPressed(D) ==
  /\ InputAllowed(D)
  /\ IF RestartGuard(state)
     THEN \E u \in D.treeFrames : startGame(u)
     ELSE UNCHANGED <<gameVars, pageVars>>
  /\ UNCHANGED <<serverVars, listVars>>

\* The return-to-start button.
ReturnStartPressed(D) ==
  /\ InputAllowed(D)
  /\ IF ReturnGuard(state)
     THEN \E u \in D.treeFrames : returnToStart(u)
     ELSE UNCHANGED <<gameVars, pageVars>>
  /\ UNCHANGED <<serverVars, listVars>>

\* The quit button.
QuitPressed(D) ==
  /\ InputAllowed(D)
  /\ IF QuitGuard(state) THEN finishGameOver ELSE UNCHANGED <<gameVars, pageVars>>
  /\ UNCHANGED <<serverVars, listVars>>

\* The ArrowUp key and the tap (the menu the key moves in START is not part
\* of the session).
JumpPressed(D) ==
  /\ InputAllowed(D)
  /\ IF PlayGuard(state)
     THEN jump /\ UNCHANGED pageVars
     ELSE UNCHANGED <<gameVars, pageVars>>
  /\ UNCHANGED <<serverVars, listVars>>

\* The space key and the swipe right.
AttackPressed(D) ==
  /\ InputAllowed(D)
  /\ IF PlayGuard(state)
     THEN destroyBlock /\ UNCHANGED pageVars
     ELSE UNCHANGED <<gameVars, pageVars>>
  /\ UNCHANGED <<serverVars, listVars>>

\* The left and right arrows and the swipes of the start screen.
DifficultyGuardAny(st) == TRUE

DifficultyGuard(st) == st = "START"

DifficultyPressed(direction) ==
  /\ IF DifficultyGuard(state)
     THEN changeDifficulty(direction) /\ UNCHANGED pageVars
     ELSE UNCHANGED <<gameVars, pageVars>>
  /\ UNCHANGED <<serverVars, listVars>>

\* One frame of the game loop.
Frame(D) == Tick(D) /\ UNCHANGED <<serverVars, listVars>>

\* ------------------------------------------------------------------------
\* The page's requests: their completions and the score form
\* ------------------------------------------------------------------------

\* How a GET /api/leaderboard may settle: a body with an entries array, a
\* JSON body without one, TypeScript source, a body that is not JSON, an
\* error status, a rejected fetch.
FetchOutcomes == {"entries", "noentries", "source", "garbage", "status", "network"}

\* The gameplay state over the completion of a request.
SettleResetsGame == state' = state /\ resetGame(0)

SettleKeepsGame == UNCHANGED gameVars

\* initializeLeaderboard() from the moment its fetch settles; n entries.
InitializeSettled(outcome, n) ==
  /\ fetches["initialize"] > 0
  /\ fetches' = [fetches EXCEPT !["initialize"] = @ - 1]
  /\ LET e == padLeaderboardEntries(IF outcome = "entries" THEN n ELSE 0)
         returned == outcome \in {"source", "garbage"}
         started == startLeaderboardAutoScroll(leaderboardScrollInterval, liveIntervals)
     IN /\ leaderboardEntries' = e
        /\ currentLeaderboardRange' = 0
        /\ displayed' = displayLeaderboardRange(e, 0)
        /\ IF ~returned /\ e.real > 0
           THEN /\ leaderboardScrollInterval' = started[1]
                /\ liveIntervals' = started[2]
           ELSE UNCHANGED <<leaderboardScrollInterval, liveIntervals>>
  /\ UNCHANGED formVars
  /\ SettleKeepsGame
  /\ UNCHANGED <<serverVars, listVars>>

\* refreshLeaderboard() from the moment its fetch settles, and what awaits
\* it: the then() of returnToStart(), or the finally of handleScoreSubmission().
RefreshSettled(kind, outcome, n) ==
  /\ kind \in {"return", "submitted"}
  /\ fetches[kind] > 0
  /\ fetches' = [fetches EXCEPT ![kind] = @ - 1]
  /\ LET got == outcome = "entries"
         e == IF got THEN padLeaderboardEntries(n) ELSE leaderboardEntries
         shown == got /\ state = "START"
         started == startLeaderboardAutoScroll(leaderboardScrollInterval, liveIntervals)
     IN /\ leaderboardEntries' = e
        /\ IF kind = "return"
           THEN /\ currentLeaderboardRange' = 0
                /\ displayed' = displayLeaderboardRange(e, 0)
                /\ leaderboardScrollInterval' = started[1]
                /\ liveIntervals' = started[2]
                /\ UNCHANGED formVars
           ELSE /\ currentLeaderboardRange' = IF shown THEN 0 ELSE currentLeaderboardRange
                /\ displayed' = IF shown THEN displayLeaderboardRange(e, 0) ELSE displayed
                /\ submitDisabled' = FALSE
                /\ UNCHANGED <<leaderboardScrollInterval, liveIntervals, usernameInput,
                               savedUsername, posts, submitMessage, devHost>>
  /\ SettleKeepsGame
  /\ UNCHANGED <<serverVars, listVars>>

\* The callback of the interval timer.
ScrollTick ==
  /\ liveIntervals > 0
  /\ currentLeaderboardRange' = (currentLeaderboardRange + 1) % 3
  /\ displayed' = displayLeaderboardRange(leaderboardEntries, currentLeaderboardRange')
  /\ UNCHANGED <<leaderboardEntries, leaderboardScrollInterval, liveIntervals, fetches,
                 formVars, gameVars, serverVars, listVars>>

\* The player types into the username field of the game-over screen.
TypeUsername(raw) ==
  /\ state = "GAME_OVER"
  /\ usernameInput' = raw
  /\ UNCHANGED <<savedUsername, posts, submitMessage, submitDisabled, devHost,
                 panelVars, gameVars, serverVars, listVars>>

ErrorMessage(text) == [type |-> "error", text |-> text]

\* A form that limits the length and leaves the characters to the server.
ClientCutOnly(username) == Cut(username)

\* username.slice(0, 50).replace(...), the form's own sanitization
ClientSanitize(username) == Strip(Cut(username))

\* The username the form sends for a text of the field.
ClientName(raw) == ClientSanitize(Trim(raw))

\* handleScoreSubmission() up to its await.
handleScoreSubmission ==
  LET username == Trim(usernameInput)
      sanitizedUsername == ClientSanitize(username)
  IN IF username = <<>>
     THEN UNCHANGED formVars
     ELSE IF devHost
          THEN /\ submitMessage' = ErrorMessage("API not available")
               /\ UNCHANGED <<usernameInput, savedUsername, posts, submitDisabled,
                              devHost>>
          ELSE IF Len(sanitizedUsername) = 0
               THEN /\ submitMessage' = ErrorMessage("Invalid username")
                    /\ UNCHANGED <<usernameInput, savedUsername, posts,
                                   submitDisabled, devHost>>
               ELSE /\ submitDisabled' = TRUE
                    /\ posts' = Append(posts, [username |-> sanitizedUsername,
                                               score |-> score])
                    /\ UNCHANGED <<usernameInput, savedUsername, submitMessage,
                                   devHost>>

\* The submit button (which a disabled button does not deliver) and the Enter
\* key of the username field.
SubmitPressed(via, limit) ==
  /\ state = "GAME_OVER"
  /\ via = "button" => ~submitDisabled
  /\ Len(posts) < limit
  /\ handleScoreSubmission
  /\ UNCHANGED <<panelVars, gameVars, serverVars, listVars>>

\* How a POST /api/submit-score may settle: 200 with success true, 200 with
\* success false, 200 without the flag or a message, 200 with a body that is
\* not JSON, an error status with an error text, a rejected fetch.
SubmitOutcomes == {"accepted", "notHigher", "noFlag", "badJson", "rejected", "network"}

\* submitScore(): {success, message}; the message is the server's or a text
\* of the page's own.
SubmitResult(outcome) ==
  [success |-> outcome \in {"accepted", "noFlag"},
   message |-> IF outcome \in {"accepted", "notHigher", "rejected"} THEN "server"
               ELSE IF outcome = "noFlag" THEN "Score not updated."
               ELSE "client"]

\* localStorage after the result of a submission.
SavedAlways(saved, result, sanitizedUsername) == sanitizedUsername

SavedAfter(saved, result, sanitizedUsername) ==
  IF result.success THEN sanitizedUsername ELSE saved

\* handleScoreSubmission() from the moment submitScore() has settled.
PostSettled(i, outcome) ==
  /\ i \in 1..Len(posts)
  /\ LET result == SubmitResult(outcome)
     IN /\ posts' = RemoveAt(posts, i)
        /\ savedUsername' = SavedAfter(savedUsername, result, posts[i].username)
        /\ submitMessage' = [type |-> IF result.success THEN "success" ELSE "error",
                             text |-> result.message]
        /\ fetches' = IF result.success THEN StartFetch(fetches, "submitted")
                      ELSE fetches
        /\ submitDisabled' = IF result.success THEN submitDisabled ELSE FALSE
  /\ UNCHANGED <<usernameInput, devHost, leaderboardEntries, displayed,
                 currentLeaderboardRange, leaderboardScrollInterval,
                 liveIntervals>>
  /\ SettleKeepsGame
  /\ UNCHANGED <<serverVars, listVars>>

\* The server of a game session: no request in flight.
InitIdleServer ==
  /\ store = [u \in Users |-> Null]
  /\ prior = store
  /\ reqs = [r \in ReqIds |-> IdleReq]

\* A session of the game: the constructed game and the idle server.
InitSession ==
  InitGame /\ InitIdleServer /\ lreq = IdleList /\ InitPage(NoName, FALSE)

\* The results the random and asset-dependent calls are drawn from, in
\* 1/Scale: spacing 150 or 300 ticks, 2 blocks, no image or one twice as high
\* as wide.
DrawsGame ==
  [period |-> InputPeriod, maxTicks |-> MaxTicks,
   shake |-> {500}, spacing |-> {0, 500}, blocks |-> {0},
   image |-> {"none", "DAN"}, tree |-> {TRUE}, treeHeight |-> {0},
   treeFrames |-> {0}, mad |-> {TRUE}]

NextGame ==
  \/ StartPressed(DrawsGame)
  \/ TryAgainPressed(DrawsGame)
  \/ ReturnStartPressed(DrawsGame)
  \/ QuitPressed(DrawsGame)
  \/ JumpPressed(DrawsGame)
  \/ AttackPressed(DrawsGame)
  \/ Frame(DrawsGame)

SpecGame == InitSession /\ [][NextGame]_vars

\* One run in detail: spacing 300 ticks, 2, 3 or 10 blocks, no image or a
\* square one.
DrawsPlay ==
  [period |-> InputPeriod, maxTicks |-> PlayTicks,
   shake |-> {500}, spacing |-> {500}, blocks |-> {0, 120, 999},
   image |-> {"none", "SAM"}, tree |-> {TRUE}, treeHeight |-> {0},
   treeFrames |-> {0}, mad |-> {TRUE}]

NextPlay ==
  \/ StartPressed(DrawsPlay)
  \/ JumpPressed(DrawsPlay)
  \/ AttackPressed(DrawsPlay)
  \/ Frame(DrawsPlay)

SpecPlay == InitSession /\ [][NextPlay]_vars

\* The server specifications: the game of the session stays on its start
\* screen.
InitSubmit ==
  InitServer /\ InitGame /\ lreq = IdleList /\ InitPage(NoName, FALSE)

InitSubmitSeq ==
  InitSeq /\ InitGame /\ lreq = IdleList /\ InitPage(NoName, FALSE)

SpecServer == InitSubmit /\ [][NextServer]_vars

SpecRace == InitSubmit /\ [][NextRace]_vars

SpecSeq == InitSubmitSeq /\ [][NextSeq]_vars

InitSubmitRaw ==
  InitSanitize /\ InitGame /\ lreq = IdleList /\ InitPage(NoName, FALSE)

SpecSanitize == InitSubmitRaw /\ [][NextSanitize]_vars

\* One List request over each of the sets.
InitList ==
  /\ store \in ListStores
  /\ prior = store
  /\ reqs = [r \in ReqIds |-> IdleReq]
  /\ lreq = IdleList
  /\ InitGame
  /\ InitPage(NoName, FALSE)

SpecList == InitList /\ [][NextList]_vars

\* A fresh session: the start action and the frames after it.
DrawsFresh ==
  [period |-> InputPeriod, maxTicks |-> FreshTicks,
   shake |-> {0, 999}, spacing |-> {0, 500, 999}, blocks |-> {0, 500, 999},
   image |-> {"none", "SAM", "DAN"}, tree |-> BOOLEAN, treeHeight |-> {0, 999},
   treeFrames |-> {0}, mad |-> {TRUE}]

NextFresh ==
  \/ StartPressed(DrawsFresh)
  \/ Frame(DrawsFresh)

SpecFresh == InitSession /\ [][NextFresh]_vars

\* One run with towers wider than the way from the character to the left
\* edge: spacing 150 ticks, 5 blocks, a square image, the keys every
\* OrderPeriod ticks.
OrderTicks == 740
OrderPeriod == 5

DrawsOrder ==
  [period |-> OrderPeriod, maxTicks |-> OrderTicks,
   shake |-> {500}, spacing |-> {0}, blocks |-> {400},
   image |-> {"SAM"}, tree |-> {TRUE}, treeHeight |-> {0},
   treeFrames |-> {0}, mad |-> {TRUE}]

NextOrder ==
  \/ StartPressed(DrawsOrder)
  \/ JumpPressed(DrawsOrder)
  \/ Frame(DrawsOrder)

SpecOrder == InitSession /\ [][NextOrder]_vars

\* Runs that end by collision or by the quit button: spacing 150 ticks,
\* 2 blocks, no image, the keys every AnimPeriod ticks.
AnimTicks == 900
AnimPeriod == 90

DrawsAnim ==
  [period |-> AnimPeriod, maxTicks |-> AnimTicks,
   shake |-> {500}, spacing |-> {0}, blocks |-> {0},
   image |-> {"none"}, tree |-> {TRUE}, treeHeight |-> {0},
   treeFrames |-> {0}, mad |-> {TRUE}]

NextAnim ==
  \/ StartPressed(DrawsAnim)
  \/ JumpPressed(DrawsAnim)
  \/ QuitPressed(DrawsAnim)
  \/ Frame(DrawsAnim)

SpecAnim == InitSession /\ [][NextAnim]_vars

\* requestAnimationFrame keeps calling the loop.
SpecAnimFair == SpecAnim /\ WF_vars(Frame(DrawsAnim))

\* Runs of a player who only starts the game: spacing 150 or 450 ticks,
\* 2 blocks, a square image.  StandTicks is beyond the tick of the
\* third collision however the spawns are drawn.
StandTicks == 1500

DrawsStand ==
  [period |-> 1, maxTicks |-> StandTicks,
   shake |-> {500}, spacing |-> {0, 999}, blocks |-> {0},
   image |-> {"SAM"}, tree |-> {TRUE}, treeHeight |-> {0},
   treeFrames |-> {0}, mad |-> {TRUE}]

NextStand ==
  \/ StartPressed(DrawsStand)
  \/ Frame(DrawsStand)

SpecStand == InitSession /\ [][NextStand]_vars

SpecStandFair == SpecStand /\ WF_vars(Frame(DrawsStand))

\* A session with the requests of its leaderboard panel: a few frames per
\* run and none between the runs, lists of 0 or 12 entries, every way a fetch
\* may settle.
PageTicks == 2

DrawsPanel ==
  [period |-> 1, maxTicks |-> PageTicks,
   shake |-> {500}, spacing |-> {500}, blocks |-> {0},
   image |-> {"none"}, tree |-> {TRUE}, treeHeight |-> {0},
   treeFrames |-> {0}, mad |-> {TRUE}]

InitPanel ==
  /\ InitGame
  /\ InitIdleServer
  /\ lreq = IdleList
  /\ InitPage(NoName, FALSE)

NextPanel ==
  \/ StartPressed(DrawsPanel)
  \/ TryAgainPressed(DrawsPanel)
  \/ ReturnStartPressed(DrawsPanel)
  \/ QuitPressed(DrawsPanel)
  \/ state = "PLAYING" /\ Frame(DrawsPanel)
  \/ \E outcome \in FetchOutcomes, n \in {0, 12} : InitializeSettled(outcome, n)
  \/ \E outcome \in FetchOutcomes, n \in {0, 12} : RefreshSettled("return", outcome, n)
  \/ ScrollTick
  \/ \E direction \in {0 - 1, 1} : DifficultyPressed(direction)

SpecPanel == InitPanel /\ [][NextPanel]_vars

\* A session with its score form: one run of up to 660 frames that the
\* player may quit every 330 frames, no jump, towers of 2 blocks; the
\* usernames typed, every way a submission may settle, lists of 12 entries.
FormTicks == 660
FormPeriod == 330
FormNames == {RawBangs, RawJohnDoe, Rep("a", UsernameLimit + 1)}

DrawsForm ==
  [period |-> FormPeriod, maxTicks |-> FormTicks,
   shake |-> {500}, spacing |-> {0}, blocks |-> {0},
   image |-> {"none"}, tree |-> {TRUE}, treeHeight |-> {0},
   treeFrames |-> {0}, mad |-> {TRUE}]

InitForm ==
  /\ InitGame
  /\ InitIdleServer
  /\ lreq = IdleList
  /\ \E dev \in BOOLEAN : InitPage(NoName, dev)

NextForm ==
  \/ StartPressed(DrawsForm)
  \/ QuitPressed(DrawsForm)
  \/ state = "PLAYING" /\ Frame(DrawsForm)
  \/ \E outcome \in {"entries", "network"} : InitializeSettled(outcome, 12)
  \/ \E outcome \in {"entries", "network"} : RefreshSettled("submitted", outcome, 12)
  \/ \E raw \in FormNames : TypeUsername(raw)
  \/ \E via \in {"button", "enter"} : SubmitPressed(via, MaxPosts)
  \/ \E i \in 1..MaxPosts, outcome \in SubmitOutcomes : PostSettled(i, outcome)

SpecForm == InitForm /\ [][NextForm]_vars

\* ------------------------------------------------------------------------
\* Claims about the game session
\* ------------------------------------------------------------------------

\* overlapRun.len counts the consecutive PLAYING frames that ended with the
\* character overlapping an active obstacle, overlapRun.lost the lives
\* deducted in those frames.

\* C4: collision damage is edge-triggered.  While the character overlaps an
\* obstacle over consecutive PLAYING frames exactly one life is deducted, and
\* a life is deducted only in a frame that follows a frame without any
\* overlap, and then only one.
C4_EdgeTriggeredDamage ==
  /\ [](overlapRun.len >= 1 => overlapRun.lost = 1)
  /\ [][lives' < lives => overlapRun.len = 0 /\ lives' = lives - 1]_vars

\* An overlap several frames long that cost one life, the second of the run.
C4_Witness ==
  /\ state = "PLAYING"
  /\ overlapRun.len >= 5
  /\ overlapRun.lost = 1
  /\ lives = InitialLives - 2

C6_ScoreIsRetiredBlocks ==
  score = spawnedBlocks - destroyedBlocks - SumBlocks(obstacles)

\* Every obstacle of the run so far is retired, one of them after attacks.
C6_Witness ==
  /\ state = "PLAYING"
  /\ obstacles = <<>>
  /\ destroyedBlocks > 0
  /\ score > 0
  /\ score < spawnedBlocks

\* impulses counts the jump() calls since the last landing that changed the
\* velocity or a flag.

\* C7: double-jump gating.  A jump from the ground and a jump in the air each
\* set the velocity to JUMP_STRENGTH, two impulses in all; every further
\* jump before landing changes nothing; landing clears both flags, and a jump
\* from the ground applies an impulse again.
C7_DoubleJumpGating ==
  /\ [](/\ impulses \in 0..2
        /\ impulses = 2 => hasDoubleJumped /\ ~canDoubleJump
        /\ Grounded(characterY) /\ characterVelocityY = 0
             => ~canDoubleJump /\ ~hasDoubleJumped /\ impulses = 0
        /\ state = "PLAYING" /\ InputAllowed(DrawsPlay) =>
             /\ Grounded(characterY) /\ characterVelocityY = 0
                  => ENABLED <<JumpPressed(DrawsPlay)>>_vars
             /\ ~Grounded(characterY) /\ impulses = 1
                  => ENABLED <<JumpPressed(DrawsPlay)>>_vars
             /\ ~Grounded(characterY) /\ impulses = 2
                  => ~ENABLED <<JumpPressed(DrawsPlay)>>_vars)
  /\ [][/\ <<JumpPressed(DrawsPlay)>>_vars =>
             /\ characterVelocityY' = JUMP_STRENGTH
             /\ impulses' = impulses + 1
             /\ UNCHANGED <<state, score, lives, characterY, obstacles, floorOffset>>
        /\ ~Grounded(characterY) /\ Grounded(characterY')
             => ~canDoubleJump' /\ ~hasDoubleJumped' /\ impulses' = 0]_vars

\* In the air after both impulses, at a frame where a third jump() arrives.
C7_Witness ==
  /\ state = "PLAYING"
  /\ InputAllowed(DrawsPlay)
  /\ impulses = 2
  /\ ~Grounded(characterY)

\* C8: the phase changes only from START to PLAYING by the start action, from
\* PLAYING to GAME_OVER_ANIMATING in the frame that takes the last life, from
\* GAME_OVER_ANIMATING to GAME_OVER in the frame that completes the animation,
\* from PLAYING or GAME_OVER_ANIMATING to GAME_OVER by quit, from GAME_OVER to
\* PLAYING by restart and from GAME_OVER to START by return; an action issued
\* in any other phase changes nothing of the session.
C8_PhaseTransitions ==
  [][/\ state' # state =>
          \/ /\ state = "START" /\ state' = "PLAYING"
             /\ StartPressed(DrawsGame)
          \/ /\ state = "PLAYING" /\ state' = "GAME_OVER_ANIMATING"
             /\ lives # 0 /\ lives' = 0
             /\ Frame(DrawsGame)
          \/ /\ state = "GAME_OVER_ANIMATING" /\ state' = "GAME_OVER"
             /\ gameOverAnimationTime' >= GameOverAnimationDuration
             /\ Frame(DrawsGame)
          \/ /\ state \in {"PLAYING", "GAME_OVER_ANIMATING"} /\ state' = "GAME_OVER"
             /\ QuitPressed(DrawsGame)
          \/ /\ state = "GAME_OVER" /\ state' = "PLAYING"
             /\ TryAgainPressed(DrawsGame)
          \/ /\ state = "GAME_OVER" /\ state' = "START"
             /\ ReturnStartPressed(DrawsGame)
     /\ state # "START" /\ StartPressed(DrawsGame) => UNCHANGED gameVars
     /\ state # "GAME_OVER" /\ TryAgainPressed(DrawsGame) => UNCHANGED gameVars
     /\ state # "GAME_OVER" /\ ReturnStartPressed(DrawsGame) => UNCHANGED gameVars
     /\ state \in {"START", "GAME_OVER"} /\ QuitPressed(DrawsGame)
          => UNCHANGED gameVars
     /\ state # "PLAYING" /\ JumpPressed(DrawsGame) => UNCHANGED gameVars
     /\ state # "PLAYING" /\ AttackPressed(DrawsGame) => UNCHANGED gameVars]_vars

\* The game over screen of a run that lost its last life and whose animation
\* ran to its end.
C8_Witness ==
  /\ state = "GAME_OVER"
  /\ lives = 0
  /\ gameOverAnimationTime >= GameOverAnimationDuration

\* C9: lives are in 0..3; they are 3 when a run starts; they change only by
\* one down in a PLAYING frame that follows a frame without overlap and sets
\* the collision flag, or by the reset to 3; the frame that takes the last life
\* moves the phase from PLAYING to GAME_OVER_ANIMATING.
C9_Lives ==
  /\ [](/\ lives \in 0..3
        /\ state = "PLAYING" => lives > 0)
  /\ [][/\ state # "PLAYING" /\ state' = "PLAYING" => lives' = 3
        /\ lives' # lives =>
             \/ /\ lives' = lives - 1
                /\ state = "PLAYING"
                /\ floorOffset' = floorOffset + FLOOR_SPEED
                /\ overlapRun.len = 0
                /\ isInCollision'
             \/ /\ lives' = 3
                /\ state = "GAME_OVER" /\ state' \in {"PLAYING", "START"}
        /\ lives # 0 /\ lives' = 0 =>
             state = "PLAYING" /\ state' = "GAME_OVER_ANIMATING"]_vars

\* The run has just lost its last life.
C9_Witness ==
  /\ state = "GAME_OVER_ANIMATING"
  /\ lives = 0
  /\ gameOverAnimationTime = 0

\* C10: in a fresh session, whose difficulty is MEDIUM with base spacing 200,
\* no obstacle exists in the frames before frame 200 of the run, and after
\* frame 200 exactly one exists, of 2 to 10 blocks, at x = CANVAS_WIDTH.
C10_FirstObstacleAt200 ==
  state = "PLAYING" /\ difficulty = "MEDIUM" =>
    /\ TicksOf(floorOffset) < DifficultySettings("MEDIUM") => obstacles = <<>>
    /\ TicksOf(floorOffset) = DifficultySettings("MEDIUM") =>
         /\ Len(obstacles) = 1
         /\ Len(obstacles[1].blocks) \in 2..10
         /\ obstacles[1].x = CANVAS_WIDTH

\* ------------------------------------------------------------------------
\* Claims about the List handler
\* ------------------------------------------------------------------------

ListAnswered == lreq.pc = "done" /\ lreq.outcome \in ReplyShapes

EntryAt(username) ==
  {lreq.resp.entries[i].position :
     i \in {j \in 1..Len(lreq.resp.entries) : lreq.resp.entries[j].username = username}}

\* C11: a List request the backend answers returns at most 25 entries, in
\* non-increasing score order, with positions exactly 1..n and at most one
\* entry per username; for the stored scores {A: 100, B: 90, C: 100} it
\* returns A and C in positions 1 and 2 in some order and B at position 3.
C11_ListRanking ==
  ListAnswered =>
    LET entries == lreq.resp.entries
        n == Len(entries)
    IN /\ n <= RangeStop + 1
       /\ \A i \in 1..n : entries[i].position = i
       /\ \A i \in 1..n, j \in 1..n :
            /\ i < j => entries[i].score >= entries[j].score
            /\ i # j => entries[i].username # entries[j].username
       /\ store = ExampleStore =>
            /\ n = 3
            /\ EntryAt("A") \cup EntryAt("C") = {1, 2}
            /\ EntryAt("B") = {3}

\* C13: every List response, whatever its status, has a body with an entries
\* array.
C13_EntriesAlwaysPresent == lreq.pc = "done" => lreq.resp.hasEntries

\* ------------------------------------------------------------------------
\* Claims about the sanitization of the Submit handler
\* ------------------------------------------------------------------------

Validated(r) == reqs[r].pc # "idle" /\ ~(Done(r) /\ reqs[r].resp.status = 400)

NoBackendCall(r) ==
  reqs[r].lookup = "none" /\ ~reqs[r].written /\ reqs[r].existingScore = Null

\* C12: the handler compares and stores under the sanitized username only: a
\* request that passes validation works on a key that is non-empty, at most
\* 50 characters long and made of allowed characters only ("John Doe!!" works
\* on "JohnDoe"); a username that is empty after sanitization ("!!!") is
\* answered 400 without any read or write of the backend.
C12_SanitizedKey ==
  /\ \A r \in Arrived :
       /\ Validated(r) =>
            /\ Len(reqs[r].name) \in 1..UsernameLimit
            /\ \A i \in 1..Len(reqs[r].name) : reqs[r].name[i] \in AllowedChars
            /\ reqs[r].username \in Users
            /\ Spelling(reqs[r].username) = reqs[r].name
            /\ reqs[r].raw = RawJohnDoe => reqs[r].name = JohnDoe
       /\ reqs[r].raw \in {RawBangs, <<" ", " ">>, Rep("!", UsernameLimit) \o <<"a">>} =>
            /\ Done(r)
            /\ reqs[r].resp.status = 400
            /\ NoBackendCall(r)
  /\ \A u \in DOMAIN store :
       store[u] # Null =>
         \E r \in Arrived : reqs[r].written /\ Spelling(u) = reqs[r].name

C12_Witness ==
  /\ \E r \in Arrived : Done(r) /\ reqs[r].raw = RawJohnDoe /\ reqs[r].written
                        /\ store[UserOrder[1]] = reqs[r].score
  /\ \E r \in Arrived : Done(r) /\ reqs[r].raw = RawBangs

\* ------------------------------------------------------------------------
\* Claims about the leaderboard panel
\* ------------------------------------------------------------------------

\* C14: the auto-scroll timer is active only while the phase is START; a
\* fetch started on entering START that settles after the player has started
\* a run neither starts a timer nor leaves one running.
C14_ScrollOnlyInStart == leaderboardScrollInterval # Null => state = "START"

\* The first rows of a list without entries.
PlaceholderRows == [range |-> 0, real |-> 0, pad |-> 10]

EmptyOrFailed(outcome, n) == outcome # "entries" \/ n = 0

\* C18: each entry into START, the initial load and each return, makes a
\* list request; when the request of an entry into START settles with an
\* empty list or fails while the start screen is shown, the placeholder list
\* is displayed.
C18_PlaceholderOnEmptyOrFailure ==
  /\ fetches["initialize"] = 1
  /\ [][/\ state = "GAME_OVER" /\ ReturnStartPressed(DrawsPanel) =>
             fetches'["return"] = Min(fetches["return"] + 1, MaxInFlight)
        /\ \A outcome \in FetchOutcomes, n \in {0, 12} :
             /\ state = "START"
             /\ EmptyOrFailed(outcome, n)
             /\ InitializeSettled(outcome, n) \/ RefreshSettled("return", outcome, n)
             => displayed' = PlaceholderRows]_vars

\* ------------------------------------------------------------------------
\* Claims about the completions of requests and the score form
\* ------------------------------------------------------------------------

\* A request in flight has settled in the step.
RequestSettled ==
  \/ \E kind \in FetchKinds : fetches'[kind] < fetches[kind]
  \/ Len(posts') < Len(posts)

\* C15: the completion of a leaderboard fetch or of a score submission leaves
\* the gameplay state (phase, score, lives, character, obstacles, trees,
\* timers) as it was.
C15_SettleLeavesGameplay == [][RequestSettled => UNCHANGED gameVars]_vars

C15_Witness ==
  /\ state = "GAME_OVER"
  /\ score > 0
  /\ lives < InitialLives
  /\ leaderboardScrollInterval # Null
  /\ savedUsername # NoName

\* The username the form is to send: the allowed characters among the first
\* 50 of the trimmed text.
ExpectedName(raw) ==
  LET t == Trim(raw)
  IN SelectSeq(SubSeq(t, 1, Min(Len(t), UsernameLimit)), IsAllowed)

C17_SavedOnlyOnAccept ==
  [][/\ savedUsername' # savedUsername =>
          /\ \E i \in 1..Len(posts) :
               posts' = RemoveAt(posts, i) /\ savedUsername' = posts[i].username
          /\ submitMessage'.type = "success"
          /\ fetches'["submitted"] >= 1
     /\ \A i \in 1..MaxPosts, outcome \in SubmitOutcomes :
          PostSettled(i, outcome) =>
            IF outcome \in {"accepted", "noFlag"}
            THEN /\ savedUsername' = posts[i].username
                 /\ fetches'["submitted"] = Min(fetches["submitted"] + 1, MaxInFlight)
            ELSE /\ savedUsername' = savedUsername
                 /\ fetches' = fetches
                 /\ submitMessage'.type = "error"
                 /\ outcome \in {"notHigher", "rejected"} =>
                      submitMessage'.text = "server"]_vars

C17_Witness ==
  /\ savedUsername = JohnDoe
  /\ submitMessage = ErrorMessage("server")
  /\ usernameInput = Rep("a", UsernameLimit + 1)

\* ------------------------------------------------------------------------
\* Claims about the difficulty
\* ------------------------------------------------------------------------

Harder == [EASY |-> "MEDIUM", MEDIUM |-> "HARD", HARD |-> "EASY"]
Easier == [EASY |-> "HARD", MEDIUM |-> "EASY", HARD |-> "MEDIUM"]

MovedObstacle(i) == [obstacles[i] EXCEPT !.x = @ - OBSTACLE_SPEED]

C20_CollisionBeforeRetirement ==
  [][state = "PLAYING" /\ floorOffset' # floorOffset
     => /\ lives' < lives
           => \E i \in 1..Len(obstacles) :
                CheckCollision(MovedObstacle(i), characterX', characterY')
        /\ state' = "GAME_OVER_ANIMATING" => score' = score]_vars

\* C21: while the phase is GAME_OVER_ANIMATING a tick changes only the
\* animation time and the character rotation (and, on the last tick, the
\* phase): the character's position and velocity, the obstacles, the trees,
\* the spawn timers, the score and the lives are unchanged by every tick of
\* that phase.
AnimationTick ==
  state = "GAME_OVER_ANIMATING" /\ gameOverAnimationTime' # gameOverAnimationTime

C21_AnimationFreezesSession ==
  [][AnimationTick
     => UNCHANGED <<characterX, characterY, characterVelocityY, obstacles,
                    obstacleTimer, obstacleSpacing, trees, treeSpawnCounter,
                    nextTreeSpawnFrame, score, lives>>]_vars

\* Some ticks into the animation of a run that a collision ended in mid-air,
\* with obstacles and trees on screen.
C21_Witness ==
  /\ state = "GAME_OVER_ANIMATING"
  /\ gameOverAnimationTime >= 10 * FrameMs
  /\ lives = 0
  /\ characterVelocityY # 0
  /\ ~Grounded(characterY)
  /\ obstacles # <<>>
  /\ trees # <<>>

\* C22: once GAME_OVER_ANIMATING is entered, continued ticking without any
\* player action makes the phase GAME_OVER when the accumulated animation
\* time reaches 2000 ms, which is the 125th tick of 16 ms, and not earlier;
\* the game never remains in GAME_OVER_ANIMATING forever.
AnimationTicks == GameOverAnimationDuration \div FrameMs

C22_AnimationEnds ==
  /\ [](state = "GAME_OVER_ANIMATING"
          => gameOverAnimationTime < GameOverAnimationDuration)
  /\ [][AnimationTick
        => /\ gameOverAnimationTime' = gameOverAnimationTime + FrameMs
           /\ state' = IF gameOverAnimationTime' = AnimationTicks * FrameMs
                       THEN "GAME_OVER" ELSE "GAME_OVER_ANIMATING"]_vars
  /\ (state = "GAME_OVER_ANIMATING" ~> state = "GAME_OVER")

\* The animation has run to its end and the game over screen is up.
C22_Witness ==
  /\ state = "GAME_OVER"
  /\ lives = 0
  /\ gameOverAnimationTime = AnimationTicks * FrameMs
  /\ characterRotation = 180 * Scale

\* C23: starting grounded, one jump followed by the per-tick integration
\* (velocityY += GRAVITY; y += velocityY) until the velocity is again >= 0
\* gives a peak rise equal, within tolerance, to JUMP_HEIGHT * BLOCK_SIZE
\* pixels (120).  The tolerance allowed here is a tenth of a pixel, twice
\* what 49 ticks of the 1/Scale rounding can add up to.
ApexTolerance == Scale \div 10

\* The first tick of a single jump at which the velocity is no longer
\* negative.
AtSingleJumpApex ==
  /\ state = "PLAYING"
  /\ canDoubleJump /\ ~hasDoubleJumped
  /\ ~Grounded(characterY)
  /\ characterVelocityY >= 0 /\ characterVelocityY < GRAVITY

PeakRise == GroundY - characterY

C23_JumpApex ==
  AtSingleJumpApex
  => /\ PeakRise >= JUMP_HEIGHT * BLOCK_SIZE * Scale - ApexTolerance
     /\ PeakRise <= JUMP_HEIGHT * BLOCK_SIZE * Scale + ApexTolerance

\* C24: after every obstacle spawn the spawn interval is redrawn as
\* round(base * u) with u in [0.5, 1.5], where base is the obstacle spacing
\* of the currently selected difficulty (EASY 300, MEDIUM 200, HARD 500), so
\* every interval between consecutive spawns of a run lies between 0.5 and
\* 1.5 times that base.
SpawnTick ==
  state = "PLAYING" /\ floorOffset' # floorOffset /\ obstacleTimer' = 0

C24_SpacingFromDifficulty ==
  [][SpawnTick
     => /\ 2 * obstacleSpacing' >= DifficultySettings(difficulty)
        /\ 2 * obstacleSpacing' <= 3 * DifficultySettings(difficulty)]_vars

\* C25: every run starts from the same session state: after resetGame
\* (invoked by start, restart and return to start) the score, the lives, the
\* character's position and velocity, the jump flags, the collision flag,
\* the obstacle and tree collections, the spawn timers and the current
\* obstacle spacing equal their values at the start of a fresh session with
\* the same difficulty, whatever happened in the previous run.  The spacing
\* of a fresh session is the constructor's, or the difficulty's once the
\* difficulty has been chosen.
ResetStep ==
  \/ state = "START" /\ state' = "PLAYING"
  \/ state = "GAME_OVER" /\ state' \in {"PLAYING", "START"}

FreshSpacings(d) == {OBSTACLE_SPACING, DifficultySettings(d)}

C25_ResetRestoresSession ==
  [][ResetStep
     => /\ score' = 0
        /\ lives' = InitialLives
        /\ characterX' = CHARACTER_START_X
        /\ characterY' = GroundY
        /\ characterVelocityY' = 0
        /\ ~canDoubleJump' /\ ~hasDoubleJumped' /\ ~isInCollision'
        /\ obstacles' = <<>> /\ trees' = <<>>
        /\ obstacleTimer' = 0 /\ treeSpawnCounter' = 0
        /\ nextTreeSpawnFrame' >= TREE_SPAWN_MIN_FRAMES
        /\ nextTreeSpawnFrame' < TREE_SPAWN_MAX_FRAMES
        /\ obstacleSpacing' \in FreshSpacings(difficulty')]_vars

\* C26: an attack removes exactly one block, the topmost, from the candidate
\* obstacle with the minimum horizontal distance to the character, where the
\* candidates are the active obstacles whose right edge is ahead of the
\* character, that lie within the horizontal viewport bounds and that have
\* more than 2 blocks; it changes no other obstacle, nor the score or the
\* lives, and when no candidate exists it changes nothing.  So while a
\* candidate exists an attack does remove a block.
RightEdgeAhead(o) ==
  LET w == ObstacleWidth(o)
  IN o.x * w[2] + w[1] > (characterX + CHARACTER_SIZE) * w[2]

AttackCandidates ==
  {i \in 1..Len(obstacles) :
     /\ RightEdgeAhead(obstacles[i])
     /\ IsOnScreen(obstacles[i])
     /\ Len(obstacles[i].blocks) > 2}

Distance(i) ==
  IF obstacles[i].x >= characterX THEN obstacles[i].x - characterX
  ELSE characterX - obstacles[i].x

AttackStep == state = "PLAYING" /\ destroyedBlocks' # destroyedBlocks

C26_AttackNearestCandidate ==
  /\ [][AttackStep
        => /\ \E n \in AttackCandidates :
                /\ \A k \in AttackCandidates : Distance(n) <= Distance(k)
                /\ obstacles' =
                     [obstacles EXCEPT ![n].blocks = SubSeq(@, 1, Len(@) - 1)]
           /\ score' = score /\ lives' = lives]_vars
  /\ [](state = "PLAYING" /\ AttackCandidates # {}
          => ENABLED <<destroyBlock>>_gameVars)

\* C27: an obstacle is removed from the active set (and scored) in the first
\* tick in which its right edge - x plus its collision width, BLOCK_SIZE
\* without an image and blockCount * BLOCK_SIZE * aspect ratio with one -
\* lies left of the viewport's left boundary, and never while any part of
\* that width is still inside the viewport.
RightEdgeOut(o) ==
  LET w == ObstacleWidth(o)
  IN o.x * w[2] + w[1] < 0

\* The obstacles a tick takes out of the active set: the ones whose moved
\* position no active obstacle has afterwards.
RetiredNow ==
  {i \in 1..Len(obstacles) :
     \A j \in 1..Len(obstacles') : obstacles'[j].x # MovedObstacle(i).x}

C27_RetiredWhenRightEdgeOut ==
  [][state = "PLAYING" /\ state' = "PLAYING" /\ floorOffset' # floorOffset
     => /\ \A i \in RetiredNow : RightEdgeOut(MovedObstacle(i))
        /\ \A j \in 1..Len(obstacles') : ~RightEdgeOut(obstacles'[j])]_vars

TreeSpawnBlocked ==
  /\ treeSpawnCounter + 1 >= nextTreeSpawnFrame
  /\ trees # <<>>
  /\ 2 * (CANVAS_WIDTH - trees[Len(trees)].x) < CANVAS_WIDTH

C29_BlockedSpawnResetsCounter ==
  [][state = "PLAYING" /\ floorOffset' # floorOffset /\ TreeSpawnBlocked
     => /\ treeSpawnCounter' = 0
        /\ nextTreeSpawnFrame' >= TREE_SPAWN_MIN_FRAMES
        /\ nextTreeSpawnFrame' < TREE_SPAWN_MAX_FRAMES]_vars

\* C30: immediately after every PLAYING tick the character is not below the
\* floor (y <= floorY - characterSize), and whenever it is on the floor after
\* a tick its vertical velocity is 0 and both jump flags are false.
C30_GroundClamp ==
  [][state = "PLAYING" /\ floorOffset' # floorOffset
     => /\ characterY' <= GroundY
        /\ characterY' = GroundY
           => /\ characterVelocityY' = 0
              /\ ~canDoubleJump' /\ ~hasDoubleJumped']_vars

\* Back on the floor with all lives after the first tower went by, which
\* takes a jump over it.
C30_Witness ==
  /\ state = "PLAYING"
  /\ score > 0
  /\ lives = InitialLives
  /\ characterY = GroundY
  /\ characterVelocityY = 0
  /\ ~canDoubleJump /\ ~hasDoubleJumped

\* C31: the jump flags canDoubleJump and hasDoubleJumped are never both
\* true, in any state reachable by any sequence of jump actions, ticks and
\* resets.
C31_JumpFlagsExclusive == ~(canDoubleJump /\ hasDoubleJumped)

\* In the air after the second jump of a run that followed another run.
C31_Witness ==
  /\ state = "PLAYING"
  /\ hasDoubleJumped /\ ~canDoubleJump
  /\ ~Grounded(characterY)
  /\ impulses = 2
  /\ fetches["return"] > 0

\* C32: in every reachable state the phase and the lives counter agree:
\* phase PLAYING implies lives >= 1, phase GAME_OVER_ANIMATING implies
\* lives = 0, and phase START implies lives = 3 and score = 0.
C32_PhaseAndLivesAgree ==
  /\ state = "PLAYING" => lives >= 1
  /\ state = "GAME_OVER_ANIMATING" => lives = 0
  /\ state = "START" => lives = InitialLives /\ score = 0

\* The animation of a run that lost its three lives, in a session that has
\* been back on the start screen after an earlier run.
C32_Witness ==
  /\ state = "GAME_OVER_ANIMATING"
  /\ lives = 0
  /\ gameOverAnimationTime > 0
  /\ fetches["return"] > 0

\* C33: if the player issues no jump and no attack after entering PLAYING,
\* then under continued ticking the run eventually ends: the phase reaches
\* GAME_OVER_ANIMATING and then GAME_OVER, because every spawned tower has at
\* least 2 blocks on the floor and a grounded character cannot pass one
\* without a collision edge.
C33_StandingRunEnds ==
  /\ (state = "PLAYING" ~> state = "GAME_OVER")
  /\ [][/\ state = "PLAYING" => state' \in {"PLAYING", "GAME_OVER_ANIMATING"}
        /\ state' = "GAME_OVER" => state \in {"GAME_OVER_ANIMATING", "GAME_OVER"}
        /\ state = "PLAYING" /\ obstacles' # <<>> /\ obstacles = <<>>
             => Len(obstacles'[1].blocks) >= 2]_vars

\* The game over screen of a run that three towers ended.
C33_Witness ==
  /\ state = "GAME_OVER"
  /\ lives = 0
  /\ impulses = 0 /\ destroyedBlocks = 0
  /\ spawnedBlocks >= 3 * 2

\* C34: the number of simultaneously active obstacles stays bounded by a
\* constant that depends only on the viewport width, the obstacle speed and
\* the minimum spawn interval, and does not grow with the number of ticks
\* played: every spawned obstacle is retired a fixed number of PLAYING ticks
\* after it spawned.  An obstacle that has been moved by k ticks is at
\* CANVAS_WIDTH - k * OBSTACLE_SPEED, so its age is read off its position.
RetireAge == (CANVAS_WIDTH + BLOCK_SIZE) \div OBSTACLE_SPEED + 1

MinSpawnInterval == OBSTACLE_SPACING \div 2

MaxActive == (RetireAge - 1) \div MinSpawnInterval + 1

PositionAt(age) == CANVAS_WIDTH - age * OBSTACLE_SPEED

C34_ActiveObstaclesBounded ==
  /\ [](/\ Len(obstacles) <= MaxActive
        /\ \A i \in 1..Len(obstacles) :
             \E age \in 1..(RetireAge - 1) : obstacles[i].x = PositionAt(age))
  /\ [][state = "PLAYING" /\ state' = "PLAYING" /\ floorOffset' # floorOffset
        => \A i \in 1..Len(obstacles) :
             i \in RetiredNow <=> MovedObstacle(i).x = PositionAt(RetireAge)]_vars

\* Late in a run: as many towers active as there can be, two retired.
C34_Witness ==
  /\ state = "PLAYING"
  /\ Len(obstacles) = MaxActive
  /\ score >= 2 * 2

\* C35: an obstacle that is retired (removed from the active set and scored)
\* in a tick deducts no life in that tick or in any later tick: whenever a
\* life is deducted, an obstacle that is still active after the tick
\* overlaps the character.
C35_RetiredObstacleHarmless ==
  [][state = "PLAYING" /\ lives' < lives
     => \E j \in 1..Len(obstacles') :
          CheckCollision(obstacles'[j], characterX', characterY')]_vars

\* C36: the attack shake offsets are non-zero only during the 2000 ms (125
\* ticks) that follow a successful attack: in a session where no attack has
\* removed a block since construction or the last reset, the shake offset is
\* zero at every tick.
C36_ShakeOnlyAfterAttack ==
  destroyedBlocks = 0 => shakeOffsetX = 0 /\ shakeOffsetY = 0

\* C37: at most one leaderboard auto-scroll timer exists at any time, whatever
\* the order of starts, stops, settled refreshes and phase changes: the window
\* holds one live interval exactly when the handle is set and none otherwise,
\* and the stop made by startGame() leaves none.
C37_OneScrollTimer ==
  /\ [](/\ liveIntervals <= 1
        /\ liveIntervals = (IF leaderboardScrollInterval # Null THEN 1 ELSE 0))
  /\ [][state # "PLAYING" /\ state' = "PLAYING"
        => liveIntervals' = 0 /\ leaderboardScrollInterval' = Null]_vars

\* A run begun from a start screen whose panel was scrolling: the entries
\* that started the timer are loaded, and the timer is gone.
C37_Witness ==
  /\ state = "PLAYING"
  /\ leaderboardEntries.real > 0
  /\ \A k \in FetchKinds : fetches[k] = 0
  /\ liveIntervals = 0
  /\ leaderboardScrollInterval = Null

\* C38: username sanitization is idempotent and the form and the handler
\* agree on it.  For every text, the handler's sanitization leaves the name
\* the form has sanitized unchanged, and that name is the one the handler
\* makes of the text itself; every name in a POST of the form, and the name
\* the form persists after a success, which is the name of one of its POSTs,
\* is therefore the key the handler stores it under.
C38_SanitizeIdempotent ==
  /\ [](\A raw \in RawNames \cup FormNames :
          /\ sanitizeUsername(ClientName(raw)) = ClientName(raw)
          /\ ClientName(raw) = sanitizeUsername(raw)
          /\ sanitizeUsername(sanitizeUsername(raw)) = sanitizeUsername(raw))
  /\ [](\A i \in 1..Len(posts) :
          sanitizeUsername(posts[i].username) = posts[i].username)
  /\ [](sanitizeUsername(savedUsername) = savedUsername)
  /\ [][savedUsername' # savedUsername
        => \E i \in 1..Len(posts) : savedUsername' = posts[i].username]_vars

\* A text with a blank and two marks was typed and submitted, and the name
\* persisted after the success is the sanitized one.
C38_Witness ==
  /\ usernameInput = RawJohnDoe
  /\ savedUsername = JohnDoe
  /\ submitMessage.type = "success"

====
